---- MODULE Spec2Model ----
(***************************************************************************)
(* OpenClaw Flight Recorder: the offline analyzer (src/src/recorder.py),   *)
(* its experimental variant (src/src/recorder_ext.py) and the receipt      *)
(* chain verifier, as state machines over JSON values.                     *)
(*                                                                         *)
(* JSON / Python values are single-field records; the field name is the    *)
(* Python type, so values of different types are never confused:           *)
(*   [int |-> 3]  [bool |-> TRUE]  [null |-> TRUE]  [obj |-> f]            *)
(*   [list |-> s] and, for Python str,                                     *)
(*   [str |-> "lit"]            a literal                                  *)
(*   [rep |-> [c |-> c, n |-> n]]   the string c * n                       *)
(*   [sha |-> text]             hashlib.sha256(text).hexdigest()           *)
(*   [iso |-> t]                the ISO timestamp of wall-clock second t   *)
(*   [cat |-> [pre, body]]      pre + body                                 *)
(*   [canon |-> pairs]          a canonical JSON text                      *)
(*   [repr |-> v]               str(v) of a non-scalar v                   *)
(*   [fmt |-> parts]            an f-string: the concatenation of parts    *)
(*   [head |-> s]               the slice s[:16]                           *)
(* and [float |-> "inf"] for a non-finite JSON number.                     *)
(***************************************************************************)
EXTENDS Integers, Sequences, FiniteSets, TLC

VARIABLES
    prog,           \* the program that runs: "recorder" or "recorder_ext"
    input,          \* the flight log file, a sequence of lines
    args,           \* main: the parsed command line and config
    now,            \* the wall clock, in seconds
    pc,             \* main: position of the run
    events,         \* main: the events read (recorder_ext: raw, then
                    \* normalized)
    badge,          \* main: the badge
    receipts,       \* main: the receipts
    owners,         \* for each highlight of the badge, the index of the event
                    \* whose loop iteration appended it (history)
    run,            \* number of the current run over the same input
    first_receipts, \* receipts of the first run over this input
    rfile,          \* the receipts.jsonl file written, or handed to the
                    \* verifier
    bfile,          \* the badge.json file written
    out_dir,        \* the output directory: NoDir, or its entries other than
                    \* badge.json and receipts.jsonl
    verdict,        \* what verify_receipts_file returned (or raised)
    prior,          \* verdict on the file before it was last tampered with
    tampered,       \* index of the line whose receipt_hash was replaced, or 0
    d_event,        \* declared resolution: the event
    d_intents,      \* declared resolution: the declared-intents argument
    d_rec,          \* result of recorder.event_declared, or Absent
    d_ext,          \* result of recorder_ext.get_declared, or Absent
    p_highlights,   \* policy simulation: the highlight list
    p_rules,        \* policy simulation: the rules
    p_out,          \* what simulate_policy returned, or Absent
    p_prev          \* the rules and the result before the rules were last
                    \* edited, with the switch edited (history), or Absent

recVars == <<prog, input, args, now, pc, events, badge, receipts, owners, run,
            first_receipts>>
verVars == <<rfile, bfile, out_dir, verdict, prior, tampered>>
declVars == <<d_event, d_intents, d_rec, d_ext>>
polVars == <<p_highlights, p_rules, p_out, p_prev>>
vars == <<recVars, verVars, declVars, polVars>>

----------------------------------------------------------------------------
(* Bounds of the model *)

MaxLines == 2       \* lines of a flight log
MaxRows == 3        \* lines of an externally supplied receipts file
MaxClock == 1       \* wall-clock seconds 0..MaxClock
MaxHighlights == 2   \* highlights handed to simulate_policy on its own

(* Program constants *)

HexLen == 64

----------------------------------------------------------------------------
(* JSON values *)

JStr(s) == [str |-> s]
JInt(n) == [int |-> n]
JBool(b) == [bool |-> b]
JNull == [null |-> TRUE]
JObj(f) == [obj |-> f]
JList(s) == [list |-> s]
Rep(c, n) == [rep |-> [c |-> c, n |-> n]]

Kind(v) == CHOOSE k \in DOMAIN v : TRUE

StrKinds == {"str", "rep", "sha", "iso", "cat", "canon", "repr", "fmt",
             "head"}

\* isinstance(v, str)
IsStr(v) == Kind(v) \in StrKinds

\* isinstance(v, dict)
IsDict(v) == Kind(v) = "obj"

\* isinstance(v, bool)
IsBool(v) == Kind(v) = "bool"

\* isinstance(v, int): Python's bool is a subclass of int
IsInt(v) == Kind(v) \in {"int", "bool"}

\* v in (None, "")
IsNoneOrEmpty(v) == v = JNull \/ v = JStr("")

\* d.get(k, default) on a Python dict d (a function from keys to values)
Get(d, k, default) == IF k \in DOMAIN d THEN d[k] ELSE default

\* the empty dict
EmptyDict == [k \in {} |-> JNull]

LowerHexDigits == {"0", "1", "2", "3", "4", "5", "6", "7", "8", "9",
                   "a", "b", "c", "d", "e", "f"}
UpperHexDigits == {"A", "B", "C", "D", "E", "F"}

\* "0" * 64
Genesis == Rep("0", HexLen)

----------------------------------------------------------------------------
(* Canonical encoding and hashing *)

\* every dict key of the model, in lexicographic (code point) order
KeyOrder == <<"Authorization", "Content-Type", "X-API-Key", "actor",
              "api_key", "cmd", "cmd_digest", "data_complete", "db_type",
              "declared", "dep_name", "details", "direction", "domain_class",
              "endpoint", "event_hash", "event_ts", "event_type", "headers",
              "host", "lineno", "mode", "op", "package", "path",
              "payload_digest", "port", "prev_hash", "query", "raw_line_no",
              "reason", "receipt_hash", "seq", "size", "trace_id", "ts", "v",
              "version">>

\* sorted(d.keys())
SortedKeys(d) == SelectSeq(KeyOrder, LAMBDA k : k \in DOMAIN d)

RECURSIVE CanonValue(_)
\* json.dumps(v, sort_keys=True, separators=(",", ":")): the members of every
\* object, nested ones included, are written in sorted key order
CanonValue(v) ==
    IF IsDict(v)
    THEN LET ks == SortedKeys(v.obj)
         IN  [canon |-> [i \in 1..Len(ks) |->
                            [k |-> ks[i], v |-> CanonValue(v.obj[ks[i]])]]]
    ELSE IF Kind(v) = "list"
    THEN [list |-> [i \in 1..Len(v.list) |-> CanonValue(v.list[i])]]
    ELSE v

\* _canon_json(obj) / canon_json(obj) of a dict
canon_json(d) == CanonValue(JObj(d))

\* _sha256_hex_str(s) / sha256_hex(s): the hex digest of the text s
sha256_hex_str(s) == [sha |-> s]

\* _is_hex64(s): a str of length 64 that int(s, 16) accepts
is_hex64(s) ==
    CASE Kind(s) = "sha" -> TRUE
      [] Kind(s) = "rep" ->
            /\ s.rep.n = HexLen
            /\ s.rep.c \in LowerHexDigits \cup UpperHexDigits
      [] OTHER -> FALSE

\* re.match(r"^[0-9a-f]{64}$", s)
IsLowerHex64(s) ==
    CASE Kind(s) = "sha" -> TRUE
      [] Kind(s) = "rep" -> s.rep.n = HexLen /\ s.rep.c \in LowerHexDigits
      [] OTHER -> FALSE

----------------------------------------------------------------------------
(* Python built-ins on the values of the model *)

\* str(v)
PyStr(v) ==
    CASE IsStr(v) -> v
      [] Kind(v) = "int" -> JStr(ToString(v.int))
      [] Kind(v) = "bool" -> JStr(IF v.bool THEN "True" ELSE "False")
      [] Kind(v) = "null" -> JStr("None")
      [] OTHER -> [repr |-> v]

\* bool(v)
PyBool(v) ==
    CASE Kind(v) = "null" -> FALSE
      [] Kind(v) = "bool" -> v.bool
      [] Kind(v) = "int" -> v.int # 0
      [] Kind(v) = "str" -> v.str # ""
      [] Kind(v) = "obj" -> DOMAIN v.obj # {}
      [] Kind(v) = "list" -> Len(v.list) > 0
      [] OTHER -> TRUE

\* s.strip(), on the literals of the model
Strip(s) ==
    CASE s = JStr(" PROC_EXEC ") -> JStr("PROC_EXEC")
      [] s = JStr("  ") -> JStr("")
      [] OTHER -> s

\* s.upper(), on the literals of the model
Upper(s) ==
    CASE s = JStr("out") -> JStr("OUT")
      [] s = JStr("Out") -> JStr("OUT")
      [] s = JStr("in") -> JStr("IN")
      [] s = JStr("masked") -> JStr("MASKED")
      [] s = JStr("redacted") -> JStr("REDACTED")
      [] s = JStr("<redacted>") -> JStr("<REDACTED>")
      [] s = JStr("pass") -> JStr("PASS")
      [] s = JStr("skip") -> JStr("SKIP")
      [] s = JStr("Bearer abc") -> JStr("BEARER ABC")
      [] s = JStr("k1") -> JStr("K1")
      [] s = JStr("k2") -> JStr("K2")
      [] OTHER -> s

\* s.lower(), on the literals of the model
Lower(s) ==
    CASE s = JStr("WRITE") -> JStr("write")
      [] s = JStr("Delete") -> JStr("delete")
      [] s = JStr("W") -> JStr("w")
      [] s = JStr("LATEST") -> JStr("latest")
      [] s = JStr("REDACTED") -> JStr("redacted")
      [] s = JStr("MASKED") -> JStr("masked")
      [] s = JStr("Authorization") -> JStr("authorization")
      [] s = JStr("X-API-Key") -> JStr("x-api-key")
      [] s = JStr("DROP TABLE t") -> JStr("drop table t")
      [] s = JStr("DELETE FROM t") -> JStr("delete from t")
      [] s = JStr("DELETE FROM t WHERE id=1") -> JStr("delete from t where id=1")
      [] s = JStr("SELECT 1") -> JStr("select 1")
      [] s = JStr("Bearer abc") -> JStr("bearer abc")
      [] s = JStr("Content-Type") -> JStr("content-type")
      [] OTHER -> s

----------------------------------------------------------------------------
(* Files of JSON lines *)

BlankLine == [blank |-> TRUE]
GarbageLine == [garbage |-> TRUE]       \* not valid JSON
JsonLine(text) == [json |-> text]

\* json.dumps(d) of a dict whose keys were inserted in the order `order`:
\* the members in insertion order
Dumps(d, order) ==
    LET ks == SelectSeq(order, LAMBDA k : k \in DOMAIN d)
    IN  [pairs |-> [i \in 1..Len(ks) |-> [k |-> ks[i], v |-> d[ks[i]]]]]

\* json.loads(text): an object text becomes a dict in which, for a repeated
\* key, the last member wins; any other text is the value it denotes
Loads(text) ==
    IF Kind(text) = "pairs"
    THEN LET ps == text.pairs
             ks == {ps[i].k : i \in 1..Len(ps)}
             last(k) == CHOOSE i \in 1..Len(ps) :
                            /\ ps[i].k = k
                            /\ \A j \in (i + 1)..Len(ps) : ps[j].k # k
         IN  JObj([k \in ks |-> ps[last(k)].v])
    ELSE text

MissingFile == [missing |-> TRUE]

\* a file that holds the beginning of a JSON text only
TruncatedJson == [truncated |-> TRUE]

\* write_json(path, obj): the file holds the JSON text of obj
write_json(obj) == [json_text |-> obj]
FileOf(lines) == [lines |-> lines]

\* no directory at the path
NoDir == [nodir |-> TRUE]

\* a directory that holds nothing
EmptyDir == [others |-> {}]

\* os.listdir(out_dir) of a directory dir whose badge.json and
\* receipts.jsonl are the files b and r
listdir(dir, b, r) ==
    dir.others
    \cup (IF b # MissingFile THEN {"badge.json"} ELSE {})
    \cup (IF r # MissingFile THEN {"receipts.jsonl"} ELSE {})

----------------------------------------------------------------------------
(* verify_receipts_file *)

ReceiptKeys == <<"trace_id", "seq", "event_type", "event_hash", "prev_hash",
                 "receipt_hash">>

\* no value yet
Absent == [none |-> TRUE]

Returned(ok, msg, key, at) ==
    [ret |-> [ok |-> ok, msg |-> msg, key |-> key, at |-> at]]
Raised(exc) == [raised |-> exc]

\* the one literal of the model that contains every receipt key
KeysText == "trace_id seq event_type event_hash prev_hash receipt_hash"

\* k in r, for the Python value r: "in" or "raises"
\* (membership of a dict's keys, of a list's items, substring of a str)
KeyIn(k, r) ==
    CASE Kind(r) = "obj" -> k \in DOMAIN r.obj
      [] Kind(r) = "list" -> \E i \in 1..Len(r.list) : r.list[i] = JStr(k)
      [] Kind(r) = "str" -> r.str = KeysText
      [] OTHER -> FALSE

\* k in r raises TypeError when r is not a container
KeyInRaises(r) == Kind(r) \in {"int", "bool", "null"}

\* the first key of ReceiptKeys that is not in r, or 0
FirstMissingKey(r) ==
    IF \E j \in 1..Len(ReceiptKeys) : ~KeyIn(ReceiptKeys[j], r)
    THEN CHOOSE j \in 1..Len(ReceiptKeys) :
            /\ ~KeyIn(ReceiptKeys[j], r)
            /\ \A h \in 1..(j - 1) : KeyIn(ReceiptKeys[h], r)
    ELSE 0

\* the receipt core recomputed by the verifier
VerifyCore(f) ==
    [trace_id |-> f["trace_id"], seq |-> f["seq"],
     event_type |-> f["event_type"], event_hash |-> f["event_hash"],
     prev_hash |-> f["prev_hash"]]

\* RowCheck without the recomputation of receipt_hash
RowCheck_NoRecompute(r, i) ==
    IF KeyInRaises(r) THEN Raised("TypeError")
    ELSE IF FirstMissingKey(r) # 0
    THEN Returned(FALSE, "missing key", ReceiptKeys[FirstMissingKey(r)], JInt(i))
    ELSE IF ~IsDict(r) THEN Raised("TypeError")
    ELSE LET f == r.obj IN
         IF ~is_hex64(f["event_hash"])
         THEN Returned(FALSE, "bad event_hash", "", f["seq"])
         ELSE IF ~is_hex64(f["prev_hash"])
         THEN Returned(FALSE, "bad prev_hash", "", f["seq"])
         ELSE IF ~is_hex64(f["receipt_hash"])
         THEN Returned(FALSE, "bad receipt_hash", "", f["seq"])
         ELSE Absent

\* one pass of the body of the first loop over row r, the i-th row:
\* Absent when the loop goes on to the next row
RowCheck(r, i) ==
    IF KeyInRaises(r) THEN Raised("TypeError")
    ELSE IF FirstMissingKey(r) # 0
    THEN Returned(FALSE, "missing key", ReceiptKeys[FirstMissingKey(r)], JInt(i))
    ELSE IF ~IsDict(r) THEN Raised("TypeError")     \* r["event_hash"]
    ELSE LET f == r.obj IN
         IF ~is_hex64(f["event_hash"])
         THEN Returned(FALSE, "bad event_hash", "", f["seq"])
         ELSE IF ~is_hex64(f["prev_hash"])
         THEN Returned(FALSE, "bad prev_hash", "", f["seq"])
         ELSE IF ~is_hex64(f["receipt_hash"])
         THEN Returned(FALSE, "bad receipt_hash", "", f["seq"])
         ELSE IF f["receipt_hash"] # sha256_hex_str(canon_json(VerifyCore(f)))
         THEN Returned(FALSE, "receipt_hash mismatch", "", f["seq"])
         ELSE Absent

\* the second loop: the first i >= 2 whose prev_hash differs from the
\* receipt_hash of the row before it
ChainCheck(rows) ==
    LET broken(i) == rows[i].obj["prev_hash"] # rows[i - 1].obj["receipt_hash"]
    IN  IF \E i \in 2..Len(rows) : broken(i)
        THEN LET i == CHOOSE i \in 2..Len(rows) :
                        broken(i) /\ \A j \in 2..(i - 1) : ~broken(j)
             IN  Returned(FALSE, "chain broken", "", rows[i].obj["seq"])
        ELSE Returned(TRUE, "OK", "", JNull)

IsJsonLine(l) == Kind(l) = "json"

verify_receipts_file(file) ==
    IF file = MissingFile THEN Returned(FALSE, "missing receipts file", "", JNull)
    ELSE
    LET lines == file.lines
        \* blank lines are skipped; the first line that is not JSON ends the read
        nonblank == SelectSeq(lines, LAMBDA l : l # BlankLine)
    IN  IF \E i \in 1..Len(nonblank) : ~IsJsonLine(nonblank[i])
        THEN Returned(FALSE, "invalid JSONL in receipts", "", JNull)
        ELSE
        LET rows == [i \in 1..Len(nonblank) |-> Loads(nonblank[i].json)]
            stops(i) == RowCheck(rows[i], i) # Absent
        IN  IF Len(rows) = 0 THEN Returned(FALSE, "receipts empty", "", JNull)
            ELSE IF \E i \in 1..Len(rows) : stops(i)
            THEN LET i == CHOOSE i \in 1..Len(rows) :
                            stops(i) /\ \A j \in 1..(i - 1) : ~stops(j)
                 IN  RowCheck(rows[i], i)
            ELSE ChainCheck(rows)

----------------------------------------------------------------------------
(* The receipt built for one event (analyze_events, build_receipts) *)

\* MakeReceipt with a receipt_hash that does not cover prev_hash
MakeReceipt_HashOmitsPrev(trace_id, seq, et, event_hash, prev_hash) ==
    LET receipt_core == [trace_id |-> trace_id, seq |-> seq, event_type |-> et,
                         event_hash |-> event_hash]
        receipt_hash == sha256_hex_str(canon_json(receipt_core))
    IN  [trace_id |-> trace_id, seq |-> seq, event_type |-> et,
         event_hash |-> event_hash, prev_hash |-> prev_hash,
         receipt_hash |-> receipt_hash]

\* receipt_core, its hash, and the receipt: dict(receipt_core) plus
\* receipt_hash
MakeReceipt(trace_id, seq, et, event_hash, prev_hash) ==
    LET receipt_core == [trace_id |-> trace_id, seq |-> seq, event_type |-> et,
                         event_hash |-> event_hash, prev_hash |-> prev_hash]
        receipt_hash == sha256_hex_str(canon_json(receipt_core))
    IN  [trace_id |-> trace_id, seq |-> seq, event_type |-> et,
         event_hash |-> event_hash, prev_hash |-> prev_hash,
         receipt_hash |-> receipt_hash]

\* write_jsonl(path, rows): one json.dumps(r) line per row
write_jsonl(rows, order) ==
    FileOf([i \in 1..Len(rows) |-> JsonLine(Dumps(rows[i], order))])

----------------------------------------------------------------------------
(* recorder.py: constants and helpers *)

KNOWN_EVENT_TYPES ==
    {JStr("ID_ROUTE"), JStr("TOOL_CALL"), JStr("FILE_IO"), JStr("NET_IO"),
     JStr("PROC_EXEC"), JStr("DEP_INSTALL"), JStr("TRANSFER"),
     JStr("MESSAGE_IN"), JStr("MESSAGE_OUT"), JStr("DATABASE_OP"),
     JStr("API_CALL"), JStr("MEMORY_ACCESS"), JStr("EVIDENCE_GAP")}

DEFAULT_SENSITIVE_PREFIXES ==
    <<JStr("/etc/"), JStr("/var/log/"), JStr("/root/"), JStr("/home/"),
      JStr("/Users/"), JStr("C:\\Windows\\System32\\"), JStr("C:\\Windows\\")>>

DEFAULT_MEMORY_THRESHOLD_BYTES == 1000000000

RuleNames == {"block_unpinned_deps", "block_undeclared_actions",
              "block_sensitive_paths", "block_remote_script",
              "block_sql_risks", "block_api_exposure", "block_high_memory",
              "block_on_gaps", "block_on_unknown"}

DEFAULT_POLICY_PROFILES ==
    [advisory |->
        [r \in RuleNames |-> r \notin {"block_on_gaps", "block_on_unknown"}],
     strict_advisory |-> [r \in RuleNames |-> TRUE]]

\* load_policy_config(None): the built-in configuration
DefaultPolicyConfig ==
    [profile |-> "advisory",
     profiles |-> DEFAULT_POLICY_PROFILES,
     policy_rules |-> [r \in {} |-> TRUE],
     sensitive_prefixes |-> DEFAULT_SENSITIVE_PREFIXES,
     memory_threshold_bytes |-> DEFAULT_MEMORY_THRESHOLD_BYTES]

\* load_policy_config(path) for a policy.json that holds the JSON value
\* user, without a "profiles" member and with integer numbers; JNull for no
\* path or no file (a file that is not an object leaves the defaults too)
load_policy_config(user) ==
    IF ~IsDict(user) THEN DefaultPolicyConfig
    ELSE LET u == user.obj
             has(k, kinds) == k \in DOMAIN u /\ Kind(u[k]) \in kinds
         IN  [profile |-> IF has("profile", {"str"}) THEN u["profile"].str
                          ELSE DefaultPolicyConfig.profile,
              profiles |-> DefaultPolicyConfig.profiles,
              policy_rules |->
                  IF has("policy_rules", {"obj"})
                  THEN [r \in DOMAIN u["policy_rules"].obj |->
                            PyBool(u["policy_rules"].obj[r])]
                  ELSE DefaultPolicyConfig.policy_rules,
              sensitive_prefixes |->
                  IF has("sensitive_prefixes", {"list"})
                  THEN [i \in 1..Len(u["sensitive_prefixes"].list) |->
                            PyStr(u["sensitive_prefixes"].list[i])]
                  ELSE DefaultPolicyConfig.sensitive_prefixes,
              memory_threshold_bytes |->
                  IF has("memory_threshold_bytes", {"int"})
                  THEN u["memory_threshold_bytes"].int
                  ELSE IF has("memory_threshold_bytes", {"bool"})
                  THEN (IF u["memory_threshold_bytes"].bool THEN 1 ELSE 0)
                  ELSE DefaultPolicyConfig.memory_threshold_bytes]

\* the fallback keys of merge_details, in its order
FallbackKeys == {"host", "port", "direction", "path", "op", "mode", "cmd",
                 "cmd_digest", "package", "version", "dep_name", "db_type",
                 "query", "endpoint", "headers", "size"}

HasDetailsDict(event) == "details" \in DOMAIN event /\ IsDict(event["details"])

\* merge_details(event): the details dict, with every top-level fallback
\* key it lacks copied into it
merge_details(event) ==
    LET details == IF HasDetailsDict(event) THEN event["details"].obj
                   ELSE EmptyDict
        added == {k \in FallbackKeys : k \in DOMAIN event /\ k \notin DOMAIN details}
    IN  [k \in DOMAIN details \cup added |->
            IF k \in DOMAIN details THEN details[k] ELSE event[k]]

\* the event after merge_details(event) returned: the copies were written
\* into the event's own details dict when it has one
EventAfterMerge(event) ==
    IF HasDetailsDict(event)
    THEN [event EXCEPT !["details"] = JObj(merge_details(event))]
    ELSE event

\* event_declared(event, declared_intents)
event_declared(event, declared_intents) ==
    LET d == Get(event, "declared", JNull)
        et == PyStr(Get(event, "event_type", JStr("")))
    IN  IF IsBool(d) THEN d.bool
        ELSE IF PyBool(declared_intents)
        THEN \E i \in 1..Len(declared_intents.list) :
                /\ Strip(PyStr(declared_intents.list[i])) # JStr("")
                /\ Strip(PyStr(declared_intents.list[i])) = et
        ELSE FALSE

MustKeys == <<"v", "ts", "trace_id", "seq", "actor", "event_type",
              "payload_digest", "domain_class">>

\* must_fields_missing(event)
must_fields_missing(event) ==
    SelectSeq(MustKeys,
              LAMBDA k : k \notin DOMAIN event \/ IsNoneOrEmpty(event[k]))

RequiredDetails(et) ==
    CASE et = JStr("NET_IO") -> <<"host", "port", "direction">>
      [] et = JStr("FILE_IO") -> <<"path", "op">>
      [] et = JStr("PROC_EXEC") -> <<"cmd_digest">>
      [] et = JStr("DEP_INSTALL") -> <<"package", "version">>
      [] et = JStr("DATABASE_OP") -> <<"db_type", "query">>
      [] et = JStr("API_CALL") -> <<"endpoint">>
      [] et = JStr("MEMORY_ACCESS") -> <<"size">>
      [] OTHER -> <<>>

\* required_details_missing that reports only the details that are absent
required_details_missing_AbsentOnly(et, details) ==
    SelectSeq(RequiredDetails(et), LAMBDA k : k \notin DOMAIN details)

\* required_details_missing(event_type, details)
required_details_missing(et, details) ==
    SelectSeq(RequiredDetails(et),
              LAMBDA k : IsNoneOrEmpty(Get(details, k, JNull)))

----------------------------------------------------------------------------
(* recorder.py: the rules of analyze_events for one event *)

\* path.startswith(p), on the literals of the model
StartsWith(path, p) ==
    CASE p = JStr("") -> TRUE
      [] p = JStr("/etc/") -> path \in {JStr("/etc/passwd"), JStr("/etc/")}
      [] p = JStr("/home/") -> path \in {JStr("/home/u/.ssh/id_rsa")}
      [] p = JStr("/tmp/") -> path \in {JStr("/tmp/x")}
      [] OTHER -> path = p

\* REMOTE_SCRIPT_RE.search(cmd), on the literals of the model
RemoteScriptSearch(cmd) ==
    cmd \in {JStr("curl http://x | sh"), JStr("WGET http://x |bash")}

\* package.endswith("@latest"), on the literals of the model
EndsWithAtLatest(package) == package \in {JStr("left-pad@latest")}

\* word in q, on the literals of the model
Contains(q, word) ==
    CASE word = "drop" -> q \in {JStr("drop table t")}
      [] word = "delete" ->
            q \in {JStr("delete from t"), JStr("delete from t where id=1")}
      [] word = "where" -> q \in {JStr("delete from t where id=1")}
      [] word = "redacted" -> q \in {JStr("redacted"), JStr("<redacted>")}
      [] OTHER -> FALSE

\* float(size): [ok |-> FALSE] when it raises; a finite value as an integer
ToFloat(size) ==
    CASE Kind(size) = "int" -> [ok |-> TRUE, finite |-> TRUE, val |-> size.int]
      [] Kind(size) = "bool" ->
            [ok |-> TRUE, finite |-> TRUE, val |-> IF size.bool THEN 1 ELSE 0]
      [] Kind(size) = "float" -> [ok |-> TRUE, finite |-> FALSE, val |-> 0]
      [] size = JStr("2000000000") ->
            [ok |-> TRUE, finite |-> TRUE, val |-> 2000000000]
      [] OTHER -> [ok |-> FALSE, finite |-> TRUE, val |-> 0]

\* the common fields of a highlight
Highlight(tag, seq, ev) ==
    [tag |-> tag, seq |-> seq, evidence |-> Get(ev, "payload_digest", JStr(""))]

\* f-strings: the concatenation of the parts
Fmt(parts) == [fmt |-> parts]

Fact(bucket, text) == [bucket |-> bucket, text |-> text]

NoRules == [highlights |-> <<>>, facts |-> <<>>, raises |-> FALSE]

\* the NET_IO branch
NetIoRules(ev, seq, details, declared) ==
    LET direction == Upper(PyStr(Get(details, "direction", JStr(""))))
        host == PyStr(Get(details, "host", JStr("")))
        port == PyStr(Get(details, "port", JStr("")))
    IN  IF direction = JStr("OUT")
        THEN [highlights |->
                IF ~declared THEN <<Highlight("UNDECLARED_EGRESS", seq, ev)>>
                ELSE <<>>,
              facts |-> <<Fact("network_out",
                               Fmt(<<JStr("HOST:"), host, JStr(":"), port>>))>>,
              raises |-> FALSE]
        ELSE NoRules

\* the FILE_IO branch
FileIoRules(ev, seq, details, declared, sensitive_prefixes) ==
    LET op == Lower(PyStr(Get(details, "op", JStr(""))))
        path == PyStr(Get(details, "path", JStr("")))
        aux == [path |-> path]
    IN  IF op \in {JStr("write"), JStr("delete")}
        THEN [highlights |->
                (IF \E i \in 1..Len(sensitive_prefixes) :
                        StartsWith(path, sensitive_prefixes[i])
                 THEN <<Highlight("SENSITIVE_PATH", seq, ev) @@ aux>>
                 ELSE <<>>)
                \o (IF ~declared
                    THEN <<Highlight("UNDECLARED_FILE_MUTATION", seq, ev) @@ aux>>
                    ELSE <<>>),
              facts |-> <<Fact("file_write", Fmt(<<JStr("PATH:"), path>>))>>,
              raises |-> FALSE]
        ELSE NoRules

\* the PROC_EXEC branch
ProcExecRules(ev, seq, details, declared) ==
    LET cmd == PyStr(Get(details, "cmd", JStr("")))
        given == PyStr(Get(details, "cmd_digest", JStr("")))
        cmd_digest == IF given # JStr("") THEN given
                      ELSE IF cmd # JStr("") THEN sha256_hex_str(cmd)
                      ELSE JStr("")
        aux == [cmd_digest |-> cmd_digest]
    IN  [highlights |->
            (IF cmd # JStr("") /\ RemoteScriptSearch(cmd)
             THEN <<Highlight("REMOTE_SCRIPT", seq, ev) @@ aux>>
             ELSE <<>>)
            \o (IF ~declared
                THEN <<Highlight("UNDECLARED_EXEC", seq, ev) @@ aux>>
                ELSE <<>>),
         facts |-> <<Fact("proc_exec",
                          Fmt(<<JStr("CMD_DIGEST:sha256:"), cmd_digest>>))>>,
         raises |-> FALSE]

\* the DEP_INSTALL branch
DepInstallRules(ev, seq, details, declared) ==
    LET package == PyStr(Get(details, "package",
                             Get(details, "dep_name", JStr(""))))
        version == PyStr(Get(details, "version", JStr("")))
        dep == Fmt(<<package, JStr("@"), version>>)
        aux == [dep |-> dep]
    IN  [highlights |->
            (IF \/ Lower(version) \in {JStr("latest"), JStr("*"), JStr("")}
                \/ EndsWithAtLatest(package)
             THEN <<Highlight("UNPINNED_DEP", seq, ev) @@ aux>>
             ELSE <<>>)
            \o (IF ~declared
                THEN <<Highlight("UNDECLARED_DEP_INSTALL", seq, ev) @@ aux>>
                ELSE <<>>),
         facts |-> <<Fact("dep_install",
                          IF version # JStr("") THEN dep ELSE package)>>,
         raises |-> FALSE]

\* the DATABASE_OP branch
DatabaseOpRules(ev, seq, details) ==
    LET db_type == PyStr(Get(details, "db_type", JStr("")))
        query == PyStr(Get(details, "query", JStr("")))
        q == Lower(query)
    IN  [highlights |->
            IF Contains(q, "drop") \/ (Contains(q, "delete") /\ ~Contains(q, "where"))
            THEN <<Highlight("SQL_RISK", seq, ev) @@ [db_type |-> db_type]>>
            ELSE <<>>,
         facts |-> <<Fact("database_op",
                          Fmt(<<JStr("DB:"), db_type, JStr(" QUERY_HASH:"),
                                sha256_hex_str(query)>>))>>,
         raises |-> FALSE]

\* the header keys of the model, in the order the flight logs write them
HeaderOrder == <<"Content-Type", "api_key", "X-API-Key", "Authorization">>

CredentialHeaders == {JStr("api_key"), JStr("x-api-key"), JStr("authorization")}

\* the API_CALL branch
ApiCallRules(ev, seq, details) ==
    LET endpoint == PyStr(Get(details, "endpoint", JStr("")))
        headers == Get(details, "headers", JObj(EmptyDict))
        exposes(k) ==
            /\ k \in DOMAIN headers.obj
            /\ Lower(PyStr(JStr(k))) \in CredentialHeaders
            /\ Strip(PyStr(headers.obj[k])) # JStr("")
            /\ ~Contains(Lower(PyStr(headers.obj[k])), "redacted")
        hits == SelectSeq(HeaderOrder, exposes)
    IN  [highlights |->
            IF IsDict(headers) /\ Len(hits) > 0
            THEN <<Highlight("API_CREDENTIAL_EXPOSURE", seq, ev)
                     @@ [header |-> JStr(hits[1])]>>
            ELSE <<>>,
         facts |-> <<Fact("api_call", Fmt(<<JStr("ENDPOINT:"), endpoint>>))>>,
         raises |-> FALSE]

\* the MEMORY_ACCESS branch; int(size_f) raises for a non-finite size_f
MemoryAccessRules(ev, seq, details, memory_threshold) ==
    LET f == ToFloat(Get(details, "size", JInt(0)))
        size_f == IF f.ok THEN f.val ELSE 0
    IN  IF f.ok /\ ~f.finite
        THEN [highlights |-> <<>>, facts |-> <<>>, raises |-> TRUE]
        ELSE [highlights |->
                IF size_f > memory_threshold
                THEN <<Highlight("HIGH_MEMORY_ACCESS", seq, ev)
                         @@ [size |-> JInt(size_f)]>>
                ELSE <<>>,
              facts |-> <<Fact("memory_access",
                               Fmt(<<JStr("SIZE:"), JStr(ToString(size_f))>>))>>,
              raises |-> FALSE]

\* the if/elif chain over the event type
TypeRules(et, ev, seq, details, declared, sensitive_prefixes, memory_threshold) ==
    CASE et = JStr("NET_IO") -> NetIoRules(ev, seq, details, declared)
      [] et = JStr("FILE_IO") ->
            FileIoRules(ev, seq, details, declared, sensitive_prefixes)
      [] et = JStr("PROC_EXEC") -> ProcExecRules(ev, seq, details, declared)
      [] et = JStr("DEP_INSTALL") -> DepInstallRules(ev, seq, details, declared)
      [] et = JStr("DATABASE_OP") -> DatabaseOpRules(ev, seq, details)
      [] et = JStr("API_CALL") -> ApiCallRules(ev, seq, details)
      [] et = JStr("MEMORY_ACCESS") ->
            MemoryAccessRules(ev, seq, details, memory_threshold)
      [] OTHER -> NoRules

\* EventStep that ignores an event type outside the known set
EventStep_UnknownIgnored(ev, idx, declared_intents, sensitive_prefixes, memory_threshold) ==
    LET et == PyStr(Get(ev, "event_type", JStr("UNKNOWN")))
        trace_id == PyStr(Get(ev, "trace_id", JStr("unknown-trace")))
        given == Get(ev, "seq", JNull)
        seq == IF IsInt(given) THEN given ELSE JInt(idx + 1)
        details == merge_details(ev)
        after == EventAfterMerge(ev)
        declared == event_declared(after, declared_intents)
        missing_must == must_fields_missing(after)
        missing_det == required_details_missing(et, details)
        data_complete == Get(after, "data_complete", JBool(TRUE))
        has_gap == \/ Len(missing_must) > 0
                   \/ Len(missing_det) > 0
                   \/ data_complete = JBool(FALSE)
        gap_hl == IF has_gap
                  THEN <<Highlight("EVIDENCE_GAP", seq, after)
                           @@ [missing_must |-> missing_must,
                               missing_details |-> missing_det]>>
                  ELSE <<>>
        unknown_hl == <<>>
        rules == TypeRules(et, after, seq, details, declared,
                           sensitive_prefixes, memory_threshold)
    IN  [raises |-> rules.raises,
         has_gap |-> has_gap,
         highlights |-> gap_hl \o unknown_hl \o rules.highlights,
         facts |-> rules.facts,
         trace_id |-> trace_id, seq |-> seq, et |-> et,
         event |-> after]

\* one iteration of the loop of analyze_events over event ev at index
\* idx (from 0): what it appends, and the event as the iteration leaves it
EventStep(ev, idx, declared_intents, sensitive_prefixes, memory_threshold) ==
    LET et == PyStr(Get(ev, "event_type", JStr("UNKNOWN")))
        trace_id == PyStr(Get(ev, "trace_id", JStr("unknown-trace")))
        given == Get(ev, "seq", JNull)
        seq == IF IsInt(given) THEN given ELSE JInt(idx + 1)
        details == merge_details(ev)
        after == EventAfterMerge(ev)
        declared == event_declared(after, declared_intents)
        missing_must == must_fields_missing(after)
        missing_det == required_details_missing(et, details)
        data_complete == Get(after, "data_complete", JBool(TRUE))
        has_gap == \/ Len(missing_must) > 0
                   \/ Len(missing_det) > 0
                   \/ data_complete = JBool(FALSE)
        gap_hl == IF has_gap
                  THEN <<Highlight("EVIDENCE_GAP", seq, after)
                           @@ [missing_must |-> missing_must,
                               missing_details |-> missing_det]>>
                  ELSE <<>>
        unknown_hl == IF et \notin KNOWN_EVENT_TYPES
                      THEN <<Highlight("UNKNOWN_EVENT_TYPE", seq, after)
                               @@ [event_type |-> et]>>
                      ELSE <<>>
        rules == TypeRules(et, after, seq, details, declared,
                           sensitive_prefixes, memory_threshold)
    IN  [raises |-> rules.raises,
         has_gap |-> has_gap,
         highlights |-> gap_hl \o unknown_hl \o rules.highlights,
         facts |-> rules.facts,
         trace_id |-> trace_id, seq |-> seq, et |-> et,
         event |-> after]

----------------------------------------------------------------------------
(* recorder.py: pick_rules, simulate_policy, analyze_events *)

\* pick_rules whose built-in profile is strict_advisory
pick_rules_StrictByDefault(cfg, profile_override) ==
    [profile |-> "strict_advisory",
     rules |-> DEFAULT_POLICY_PROFILES.strict_advisory]

\* pick_rules(cfg, profile_override); "" stands for no override
pick_rules(cfg, profile_override) ==
    LET profile == IF profile_override # "" THEN profile_override
                   ELSE IF cfg.profile # "" THEN cfg.profile
                   ELSE "advisory"
        profiles == cfg.profiles
        base == IF profile \in DOMAIN profiles THEN profiles[profile]
                ELSE IF "advisory" \in DOMAIN profiles THEN profiles["advisory"]
                ELSE [r \in {} |-> TRUE]
        over == cfg.policy_rules
    IN  [profile |-> profile,
         rules |-> [r \in DOMAIN base \cup DOMAIN over |->
                        IF r \in DOMAIN over THEN over[r] ELSE base[r]]]

\* SwitchOf with REMOTE_SCRIPT under the switch of the undeclared actions
SwitchOf_RemoteUnderUndeclared(tag) ==
    CASE tag \in {"UNPINNED_DEP", "UNDECLARED_DEP_INSTALL"} -> "block_unpinned_deps"
      [] tag \in {"UNDECLARED_EXEC", "UNDECLARED_FILE_MUTATION",
                  "UNDECLARED_EGRESS", "REMOTE_SCRIPT"}
            -> "block_undeclared_actions"
      [] tag = "SENSITIVE_PATH" -> "block_sensitive_paths"
      [] tag = "SQL_RISK" -> "block_sql_risks"
      [] tag = "API_CREDENTIAL_EXPOSURE" -> "block_api_exposure"
      [] tag = "HIGH_MEMORY_ACCESS" -> "block_high_memory"
      [] tag = "EVIDENCE_GAP" -> "block_on_gaps"
      [] tag = "UNKNOWN_EVENT_TYPE" -> "block_on_unknown"
      [] OTHER -> ""

\* the switch that governs a tag in simulate_policy, "" when there is none
SwitchOf(tag) ==
    CASE tag \in {"UNPINNED_DEP", "UNDECLARED_DEP_INSTALL"} -> "block_unpinned_deps"
      [] tag \in {"UNDECLARED_EXEC", "UNDECLARED_FILE_MUTATION", "UNDECLARED_EGRESS"}
            -> "block_undeclared_actions"
      [] tag = "REMOTE_SCRIPT" -> "block_remote_script"
      [] tag = "SENSITIVE_PATH" -> "block_sensitive_paths"
      [] tag = "SQL_RISK" -> "block_sql_risks"
      [] tag = "API_CREDENTIAL_EXPOSURE" -> "block_api_exposure"
      [] tag = "HIGH_MEMORY_ACCESS" -> "block_high_memory"
      [] tag = "EVIDENCE_GAP" -> "block_on_gaps"
      [] tag = "UNKNOWN_EVENT_TYPE" -> "block_on_unknown"
      [] OTHER -> ""

\* Blocked in which a switch absent from the rules counts as enabled
Blocked_AbsentCountsEnabled(h, rules) ==
    LET sw == SwitchOf(h.tag)
    IN  sw # "" /\ (sw \in DOMAIN rules => rules[sw])

\* blocked, for highlight h: rules.get(switch, False)
Blocked(h, rules) ==
    LET sw == SwitchOf(h.tag)
    IN  sw # "" /\ sw \in DOMAIN rules /\ rules[sw]

\* the words of the violation string of a tag
ViolationWords(tag) ==
    CASE tag = "UNPINNED_DEP" -> ": Unpinned dependency "
      [] tag = "UNDECLARED_DEP_INSTALL" -> ": Undeclared dependency install "
      [] tag = "REMOTE_SCRIPT" -> ": Remote script pattern detected"
      [] tag = "UNDECLARED_EXEC" -> ": Undeclared execution"
      [] tag = "SENSITIVE_PATH" -> ": Sensitive file mutation"
      [] tag = "UNDECLARED_FILE_MUTATION" -> ": Undeclared file mutation"
      [] tag = "UNDECLARED_EGRESS" -> ": Undeclared egress"
      [] tag = "SQL_RISK" -> ": High-risk database operation"
      [] tag = "API_CREDENTIAL_EXPOSURE" -> ": Potential API credential exposure"
      [] tag = "HIGH_MEMORY_ACCESS" -> ": High memory access"
      [] tag = "EVIDENCE_GAP" -> ": Evidence gap (missing fields)"
      [] tag = "UNKNOWN_EVENT_TYPE" -> ": Unknown event_type "
      [] OTHER -> ": "

\* the violation string appended for a blocked highlight h
Violation(h) ==
    LET head == <<JStr("Seq "), PyStr(h.seq), JStr(ViolationWords(h.tag))>>
    IN  CASE h.tag \in {"UNPINNED_DEP", "UNDECLARED_DEP_INSTALL"} ->
                Fmt(head \o <<h.dep>>)
          [] h.tag \in {"SENSITIVE_PATH", "UNDECLARED_FILE_MUTATION"} ->
                \* f"... {path}".strip()
                IF h.path = JStr("") THEN Fmt(head)
                ELSE Fmt(head \o <<JStr(" "), h.path>>)
          [] h.tag = "UNKNOWN_EVENT_TYPE" -> Fmt(head \o <<h.event_type>>)
          [] OTHER -> Fmt(head)

\* simulate_policy(highlights, rules, profile_name)
simulate_policy(highlights, rules, profile_name) ==
    LET hits == SelectSeq(highlights, LAMBDA h : Blocked(h, rules))
        violations == [i \in 1..Len(hits) |-> Violation(hits[i])]
    IN  [enabled |-> TRUE,
         profile |-> profile_name,
         would_block |-> Len(hits) > 0,
         violation_count |-> Len(violations),
         violations |-> violations]

BaseBuckets == {"network_out", "file_write", "proc_exec", "dep_install"}

\* StatusOf that does not look at the gap count
StatusOf_IgnoresGaps(highlight_count, evidence_gaps) ==
    IF highlight_count = 0 THEN "OBSERVED" ELSE "ATTENTION"

\* the status label
StatusOf(highlight_count, evidence_gaps) ==
    IF highlight_count = 0 THEN "OBSERVED"
    ELSE IF evidence_gaps > 0 THEN "ATTENTION_WITH_GAPS"
    ELSE "ATTENTION"

\* the state of analyze_events before its loop
LoopStart ==
    [raises |-> FALSE, risk_highlights |-> <<>>, hl_owners |-> <<>>,
     facts |-> <<>>, evidence_gaps |-> 0, receipts |-> <<>>,
     prev_hash |-> Genesis, events |-> <<>>]

\* Extend with a prev_hash that is never advanced
Extend_PrevNotAdvanced(acc, st, receipt, i) ==
    [raises |-> st.raises,
     risk_highlights |-> acc.risk_highlights \o st.highlights,
     hl_owners |-> acc.hl_owners \o [j \in 1..Len(st.highlights) |-> i],
     facts |-> acc.facts \o st.facts,
     evidence_gaps |-> acc.evidence_gaps + (IF st.has_gap THEN 1 ELSE 0),
     receipts |-> Append(acc.receipts, receipt),
     prev_hash |-> acc.prev_hash,
     events |-> Append(acc.events, st.event)]

\* Extend that never counts a gap
Extend_GapsNotCounted(acc, st, receipt, i) ==
    [raises |-> st.raises,
     risk_highlights |-> acc.risk_highlights \o st.highlights,
     hl_owners |-> acc.hl_owners \o [j \in 1..Len(st.highlights) |-> i],
     facts |-> acc.facts \o st.facts,
     evidence_gaps |-> acc.evidence_gaps,
     receipts |-> Append(acc.receipts, receipt),
     prev_hash |-> receipt.receipt_hash,
     events |-> Append(acc.events, st.event)]

\* the end of one iteration: the receipt is appended and becomes the
\* previous one; st is what the rules made of the i-th event
Extend(acc, st, receipt, i) ==
    [raises |-> st.raises,
     risk_highlights |-> acc.risk_highlights \o st.highlights,
     hl_owners |-> acc.hl_owners \o [j \in 1..Len(st.highlights) |-> i],
     facts |-> acc.facts \o st.facts,
     evidence_gaps |-> acc.evidence_gaps + (IF st.has_gap THEN 1 ELSE 0),
     receipts |-> Append(acc.receipts, receipt),
     prev_hash |-> receipt.receipt_hash,
     events |-> Append(acc.events, st.event)]

\* one iteration of the loop, from the accumulators acc
LoopBody(acc, st, i) ==
    Extend(acc, st,
           MakeReceipt(st.trace_id, st.seq, st.et,
                       sha256_hex_str(canon_json(st.event)), acc.prev_hash),
           i)

RECURSIVE AnalyzeLoop(_, _, _, _, _, _)
\* the loop of analyze_events from the i-th event on, acc being the state
\* the earlier iterations left; an iteration that raises ends the loop
AnalyzeLoop(evs, i, acc, declared_intents, sensitive_prefixes, memory_threshold) ==
    IF i > Len(evs) \/ acc.raises THEN acc
    ELSE AnalyzeLoop(evs, i + 1,
                     LoopBody(acc,
                              EventStep(evs[i], i - 1, declared_intents,
                                        sensitive_prefixes, memory_threshold),
                              i),
                     declared_intents, sensitive_prefixes, memory_threshold)

\* BuildBadge in which the policy simulation decides the status
BuildBadge_SimSetsStatus(end, total_events, picked, do_policy_sim) ==
    LET facts == end.facts
        highlight_count == Len(end.risk_highlights)
        buckets == BaseBuckets \cup {facts[i].bucket : i \in 1..Len(facts)}
        behavior_summary ==
            [b \in buckets |->
                LET mine == SelectSeq(facts, LAMBDA f : f.bucket = b)
                IN  [i \in 1..Len(mine) |-> mine[i].text]]
        core == [status |-> IF do_policy_sim /\ highlight_count > 0
                            THEN "BLOCKED"
                            ELSE StatusOf(highlight_count, end.evidence_gaps),
                 behavior_summary |-> behavior_summary,
                 risk_highlights |-> end.risk_highlights,
                 stats |-> [total_events |-> total_events,
                            highlight_count |-> highlight_count,
                            evidence_gaps |-> end.evidence_gaps]]
    IN  IF end.raises
        THEN [raises |-> TRUE]
        ELSE [raises |-> FALSE,
              badge |-> IF do_policy_sim
                        THEN core @@ [policy_simulation |->
                                        simulate_policy(end.risk_highlights,
                                                        picked.rules,
                                                        picked.profile)]
                        ELSE core,
              owners |-> end.hl_owners,
              receipts |-> end.receipts,
              events |-> end.events]

\* the status, the badge and the optional policy simulation, from the state
\* the loop left (end)
BuildBadge(end, total_events, picked, do_policy_sim) ==
    LET facts == end.facts
        highlight_count == Len(end.risk_highlights)
        buckets == BaseBuckets \cup {facts[i].bucket : i \in 1..Len(facts)}
        behavior_summary ==
            [b \in buckets |->
                LET mine == SelectSeq(facts, LAMBDA f : f.bucket = b)
                IN  [i \in 1..Len(mine) |-> mine[i].text]]
        core == [status |-> StatusOf(highlight_count, end.evidence_gaps),
                 behavior_summary |-> behavior_summary,
                 risk_highlights |-> end.risk_highlights,
                 stats |-> [total_events |-> total_events,
                            highlight_count |-> highlight_count,
                            evidence_gaps |-> end.evidence_gaps]]
    IN  IF end.raises
        THEN [raises |-> TRUE]
        ELSE [raises |-> FALSE,
              badge |-> IF do_policy_sim
                        THEN core @@ [policy_simulation |->
                                        simulate_policy(end.risk_highlights,
                                                        picked.rules,
                                                        picked.profile)]
                        ELSE core,
              owners |-> end.hl_owners,
              receipts |-> end.receipts,
              events |-> end.events]

\* analyze_events(events, declared_intents, policy_cfg, policy_profile,
\* do_policy_sim): [raises |-> TRUE] when an iteration raises, else the badge,
\* the receipts, and the events as the call leaves them
analyze_events(evs, declared_intents, policy_cfg, policy_profile, do_policy_sim) ==
    BuildBadge(AnalyzeLoop(evs, 1, LoopStart, declared_intents,
                           IF Len(policy_cfg.sensitive_prefixes) > 0
                           THEN policy_cfg.sensitive_prefixes
                           ELSE DEFAULT_SENSITIVE_PREFIXES,
                           IF policy_cfg.memory_threshold_bytes # 0
                           THEN policy_cfg.memory_threshold_bytes
                           ELSE DEFAULT_MEMORY_THRESHOLD_BYTES),
               Len(evs), pick_rules(policy_cfg, policy_profile), do_policy_sim)

----------------------------------------------------------------------------
(* recorder.py: read_jsonl_events *)

RFC_VERSION == JStr("flight-log/1")

\* _iso_now_utc() at wall-clock second t
iso_now_utc(t) == [iso |-> t]

\* the event synthesized for line lineno, which is not a JSON object
GapEvent(lineno, t) ==
    [v |-> RFC_VERSION,
     ts |-> iso_now_utc(t),
     trace_id |-> JStr("unknown-trace"),
     seq |-> JInt(lineno),
     actor |-> JStr("unknown"),
     event_type |-> JStr("EVIDENCE_GAP"),
     payload_digest |->
        [cat |-> [pre |-> "sha256:",
                  body |-> sha256_hex_str(JStr("parse_error_line_"
                                               \o ToString(lineno)))]],
     domain_class |-> JStr("META"),
     declared |-> JBool(FALSE),
     data_complete |-> JBool(FALSE),
     details |-> JObj([reason |-> JStr("json_parse_error"),
                       lineno |-> JInt(lineno)])]

\* the numbers of the lines that are not blank, in order
NonBlankLineNos(lines) ==
    SelectSeq([i \in 1..Len(lines) |-> i], LAMBDA i : lines[i] # BlankLine)

\* read_jsonl_events that skips the lines it cannot parse
read_jsonl_events_SkipsBadLines(lines, t) ==
    LET good == SelectSeq(lines, LAMBDA l : IsJsonLine(l) /\ IsDict(Loads(l.json)))
    IN  [j \in 1..Len(good) |-> Loads(good[j].json).obj]

\* read_jsonl_events(path), read at wall-clock second t
read_jsonl_events(lines, t) ==
    LET nos == NonBlankLineNos(lines)
    IN  [j \in 1..Len(nos) |->
            LET lineno == nos[j]
                line == lines[lineno]
            IN  IF IsJsonLine(line) /\ IsDict(Loads(line.json))
                THEN Loads(line.json).obj
                ELSE GapEvent(lineno, t)]

----------------------------------------------------------------------------
(* recorder_ext.py: helpers *)

DEFAULT_SENSITIVE_PATHS ==
    <<JStr("/etc/"), JStr("/var/log/"), JStr("/home/user/.ssh/")>>

DEFAULT_POLICY_RULES ==
    [r \in {"block_unpinned_deps", "block_undeclared_actions",
            "block_sensitive_access", "block_sql_risks", "block_api_exposure",
            "block_high_memory", "block_evidence_gap"} |->
        r # "block_evidence_gap"]

DEFAULT_MEMORY_THRESHOLD == 1000000000

\* s[:16]
Head16(s) == [head |-> s]

\* safe_str(x)
safe_str(x) == IF x = JNull THEN JStr("") ELSE PyStr(x)

\* get_details(event)
get_details(event) ==
    IF "details" \in DOMAIN event /\ IsDict(event["details"])
    THEN event["details"].obj
    ELSE EmptyDict

\* get_field(event, key, default)
get_field(event, key, default) ==
    IF key \in DOMAIN get_details(event)
    THEN get_details(event)[key]
    ELSE Get(event, key, default)

\* get_declared(event, declared_intents); declared_intents is a set of
\* strings, the empty set standing for None as well
get_declared(event, declared_intents) ==
    IF /\ declared_intents # {}
       /\ safe_str(Get(event, "event_type", JStr(""))) \in declared_intents
    THEN TRUE
    ELSE IF "declared" \in DOMAIN event THEN PyBool(event["declared"])
    ELSE IF "declared" \in DOMAIN get_details(event)
    THEN PyBool(get_details(event)["declared"])
    ELSE FALSE

\* int(v): [ok |-> FALSE] when it raises (None, a container, a non-numeric
\* str, a non-finite float); the str cases on the literals of the model
ToInt(v) ==
    CASE Kind(v) = "int" -> [ok |-> TRUE, val |-> v.int]
      [] Kind(v) = "bool" -> [ok |-> TRUE, val |-> IF v.bool THEN 1 ELSE 0]
      [] v = JStr("7") -> [ok |-> TRUE, val |-> 7]
      [] v = JStr("2000000000") -> [ok |-> TRUE, val |-> 2000000000]
      [] OTHER -> [ok |-> FALSE, val |-> 0]

\* int(e.get("seq", default)) of a dict e
SeqOf(e, default) == ToInt(Get(e, "seq", JInt(default)))

\* normalize_event(event, seq) raises: event.get on a value that is not a
\* dict (AttributeError), or int() of its seq (TypeError, ValueError)
NormalizeRaises(event, seq) ==
    IF IsDict(event) THEN ~SeqOf(event.obj, seq).ok ELSE TRUE

\* normalize_event(event, seq), when it returns: a copy with an int seq and
\* a dict details
normalize_event(event, seq) ==
    [k \in DOMAIN event.obj \cup {"seq", "details"} |->
        CASE k = "seq" -> JInt(SeqOf(event.obj, seq).val)
          [] k = "details" -> JObj(get_details(event.obj))
          [] OTHER -> event.obj[k]]

\* required_fields_for_event_type(event_type)
required_fields_for_event_type(et) ==
    CASE et = JStr("NET_IO") -> <<"host", "port", "direction">>
      [] et = JStr("FILE_IO") -> <<"path", "op">>
      [] et = JStr("DATABASE_OP") -> <<"db_type", "query">>
      [] et = JStr("API_CALL") -> <<"endpoint">>
      [] et = JStr("MEMORY_ACCESS") -> <<"size">>
      [] et = JStr("WS_CONNECT") -> <<"host", "port", "direction", "protocol">>
      [] et = JStr("GATEWAY_URL_SET") ->
            <<"gateway_source", "url_digest", "validation_result">>
      [] et = JStr("CRED_SEND") ->
            <<"cred_type", "cred_digest", "target_host", "target_port",
              "transport">>
      [] OTHER -> <<>>

\* is_evidence_gap(event)
is_evidence_gap(event) ==
    \/ Get(event, "data_complete", JNull) = JBool(FALSE)
    \/ get_field(event, "data_complete", JNull) = JBool(FALSE)
    \/ \E i \in 1..Len(required_fields_for_event_type(
                          safe_str(Get(event, "event_type", JStr(""))))) :
          LET v == get_field(event,
                     required_fields_for_event_type(
                         safe_str(Get(event, "event_type", JStr(""))))[i], JNull)
          IN  v = JNull \/ (IsStr(v) /\ Strip(v) = JStr(""))

----------------------------------------------------------------------------
(* recorder_ext.py: detect_risks *)

Risk(tag, seq, ev_hash) == [tag |-> tag, seq |-> seq, evidence |-> ev_hash]

\* one risk when the condition holds
RiskIf(cond, tag, seq, ev_hash) ==
    IF cond THEN <<Risk(tag, seq, ev_hash)>> ELSE <<>>

\* UNPINNED_VER_PAT.search(ver), on the literals of the model
UnpinnedVerSearch(ver) ==
    ver \in {JStr("latest"), JStr("LATEST"), JStr("*"), JStr("1.*")}

\* "@latest" in dep_name, on the literals of the model
ContainsAtLatest(dep_name) == dep_name \in {JStr("left-pad@latest")}

\* REMOTE_SCRIPT_PAT.search(cmd), on the literals of the model
RemoteScriptPatSearch(cmd) ==
    cmd \in {JStr("curl http://x | sh"), JStr("WGET http://x |bash")}

\* nonempty(v) of the API_CALL branch
nonempty(v) ==
    LET s == IF v = JNull THEN JStr("") ELSE Strip(PyStr(v))
    IN  /\ s # JStr("")
        /\ Upper(s) \notin {JStr("REDACTED"), JStr("MASKED"),
                            JStr("<REDACTED>"), JStr("***")}

\* kl.startswith("authorization") or kl in ("x-api-key", ...), for
\* kl = str(k).lower()
IsCredentialKey(k) ==
    Lower(JStr(k)) \in {JStr("authorization"), JStr("x-api-key"),
                        JStr("x_api_key"), JStr("api-key")}

\* found, for the headers dict of an API_CALL
CredentialFound(headers) ==
    \/ "api_key" \in DOMAIN headers /\ nonempty(headers["api_key"])
    \/ \E k \in DOMAIN headers : IsCredentialKey(k) /\ nonempty(headers[k])

\* the headers of the API_CALL branch: get_field(...) or {}, {} when that
\* is not a dict
HeadersOf(event) ==
    IF IsDict(get_field(event, "headers", JObj(EmptyDict)))
    THEN get_field(event, "headers", JObj(EmptyDict)).obj
    ELSE EmptyDict

\* the if/elif chain of detect_risks over the event type
TypeRisks(event, et, seq, h, declared, sensitive_paths, memory_threshold) ==
    CASE et = JStr("DEP_INSTALL") ->
            LET ver == safe_str(get_field(event, "version", JStr("")))
                dep_name == safe_str(get_field(event, "dep_name", JStr("")))
            IN  RiskIf(ver # JStr("") /\ UnpinnedVerSearch(ver),
                       "UNPINNED_DEP", seq, h)
                \o RiskIf(dep_name # JStr("") /\ ContainsAtLatest(dep_name),
                          "UNPINNED_DEP", seq, h)
                \o RiskIf(~declared, "UNDECLARED_DEP_INSTALL", seq, h)
      [] et = JStr("PROC_EXEC") ->
            LET cmd == safe_str(get_field(event, "cmd", JStr("")))
            IN  RiskIf(cmd # JStr("") /\ RemoteScriptPatSearch(cmd),
                       "REMOTE_SCRIPT", seq, h)
                \o RiskIf(~declared, "UNDECLARED_EXEC", seq, h)
      [] et = JStr("FILE_IO") ->
            LET path == safe_str(get_field(event, "path", JStr("")))
                op == Lower(safe_str(get_field(event, "op", JStr(""))))
                mode == Lower(safe_str(get_field(event, "mode", JStr(""))))
                is_mutation == \/ op \in {JStr("write"), JStr("delete")}
                               \/ mode \in {JStr("w"), JStr("a"), JStr("x")}
                hit == \E i \in 1..Len(sensitive_paths) :
                          StartsWith(path, sensitive_paths[i])
            IN  RiskIf(path # JStr("") /\ hit, "SENSITIVE_PATH", seq, h)
                \o RiskIf(is_mutation /\ ~declared,
                          "UNDECLARED_FILE_MUTATION", seq, h)
      [] et = JStr("NET_IO") ->
            LET direction == Upper(safe_str(get_field(event, "direction",
                                                      JStr(""))))
            IN  RiskIf(direction = JStr("OUT") /\ ~declared,
                       "UNDECLARED_NET_IO", seq, h)
      [] et = JStr("DATABASE_OP") ->
            LET query == Lower(safe_str(get_field(event, "query", JStr(""))))
            IN  RiskIf(Contains(query, "drop")
                       \/ (Contains(query, "delete") /\ ~Contains(query, "where")),
                       "SQL_INJECTION_RISK", seq, h)
      [] et = JStr("API_CALL") ->
            RiskIf(CredentialFound(HeadersOf(event)), "API_KEY_EXPOSURE", seq, h)
      [] et = JStr("MEMORY_ACCESS") ->
            \* size_int is int(size), 0 when it raises
            RiskIf(ToInt(get_field(event, "size", JInt(0))).val > memory_threshold,
                   "MEMORY_OVERFLOW_RISK", seq, h)
      [] et = JStr("GATEWAY_URL_SET") ->
            LET src == safe_str(get_field(event, "gateway_source",
                                          JStr("unknown")))
                vr == Upper(safe_str(get_field(event, "validation_result",
                                               JStr("UNKNOWN"))))
                allow_hit == PyBool(get_field(event, "allowlist_hit",
                                              JBool(FALSE)))
            IN  RiskIf(src = JStr("query_param") /\ vr # JStr("PASS"),
                       "UNTRUSTED_GATEWAY_SOURCE", seq, h)
                \o RiskIf(vr = JStr("SKIP"), "GATEWAY_VALIDATION_SKIPPED", seq, h)
                \o RiskIf(~allow_hit, "ALLOWLIST_MISS", seq, h)
      [] et = JStr("WS_CONNECT") ->
            LET direction == Upper(safe_str(get_field(event, "direction",
                                                      JStr(""))))
                auto_connect == PyBool(get_field(event, "auto_connect",
                                                 JBool(FALSE)))
                host == safe_str(get_field(event, "host", JStr("")))
            IN  RiskIf(direction = JStr("OUT") /\ auto_connect,
                       "AUTO_WS_CONNECT", seq, h)
                \o RiskIf(host \in {JStr("localhost"), JStr("127.0.0.1"),
                                    JStr("::1")} /\ direction = JStr("OUT"),
                          "WS_TO_LOCALHOST", seq, h)
      [] et = JStr("CRED_SEND") ->
            <<Risk("CRED_CROSS_BOUNDARY", seq, h)>>
            \o RiskIf(~declared, "UNDECLARED_CRED_SEND", seq, h)
      [] OTHER -> <<>>

\* detect_risks(event, declared_intents, sensitive_paths, memory_threshold),
\* for an event whose seq int() accepts
detect_risks(event, declared_intents, sensitive_paths, memory_threshold) ==
    TypeRisks(event, safe_str(Get(event, "event_type", JStr(""))),
              JInt(SeqOf(event, -1).val),
              sha256_hex_str(canon_json(event)),
              get_declared(event, declared_intents),
              sensitive_paths, memory_threshold)
    \o RiskIf(is_evidence_gap(event), "EVIDENCE_GAP",
              JInt(SeqOf(event, -1).val), sha256_hex_str(canon_json(event)))

----------------------------------------------------------------------------
(* recorder_ext.py: simulate_policy, build_receipts, read_jsonl, main *)

\* block(tag) of simulate_policy: policy_rules.get(switch, default)
block(tag, policy_rules) ==
    CASE tag \in {"UNPINNED_DEP", "UNDECLARED_DEP_INSTALL"} ->
            Get(policy_rules, "block_unpinned_deps", TRUE)
      [] tag \in {"REMOTE_SCRIPT", "UNDECLARED_EXEC", "UNDECLARED_FILE_MUTATION",
                  "UNDECLARED_NET_IO", "UNDECLARED_CRED_SEND"} ->
            Get(policy_rules, "block_undeclared_actions", TRUE)
      [] tag \in {"SENSITIVE_PATH", "WS_TO_LOCALHOST"} ->
            Get(policy_rules, "block_sensitive_access", TRUE)
      [] tag = "SQL_INJECTION_RISK" -> Get(policy_rules, "block_sql_risks", TRUE)
      [] tag = "API_KEY_EXPOSURE" -> Get(policy_rules, "block_api_exposure", TRUE)
      [] tag = "MEMORY_OVERFLOW_RISK" ->
            Get(policy_rules, "block_high_memory", TRUE)
      [] tag \in {"UNTRUSTED_GATEWAY_SOURCE", "AUTO_WS_CONNECT",
                  "CRED_CROSS_BOUNDARY"} -> TRUE
      [] tag = "EVIDENCE_GAP" -> Get(policy_rules, "block_evidence_gap", FALSE)
      [] OTHER -> FALSE

\* recorder_ext.simulate_policy(risks, policy_rules)
ext_simulate_policy(risks, policy_rules) ==
    LET hits == SelectSeq(risks, LAMBDA r : block(r.tag, policy_rules))
    IN  [enabled |-> TRUE,
         would_block |-> Len(hits) > 0,
         violation_count |-> Len(hits),
         violations |->
            [i \in 1..Len(hits) |->
                Fmt(<<JStr("Seq "), PyStr(hits[i].seq), JStr(": "),
                      JStr(hits[i].tag), JStr(" (evidence="),
                      Head16(hits[i].evidence), JStr("...)")>>)]]

\* the receipt build_receipts makes of event e after the receipt hash prev
ExtReceipt(e, prev) ==
    MakeReceipt(safe_str(Get(e, "trace_id", JStr("UNKNOWN"))),
                JInt(SeqOf(e, -1).val),
                safe_str(Get(e, "event_type", JStr("UNKNOWN"))),
                sha256_hex_str(canon_json(e)), prev)
    @@ [event_ts |-> Get(e, "ts", JNull)]

RECURSIVE BuildLoop(_, _, _, _)
\* the loop of build_receipts from the i-th event on
BuildLoop(evs, i, acc, prev) ==
    IF i > Len(evs) THEN acc
    ELSE BuildLoop(evs, i + 1, Append(acc, ExtReceipt(evs[i], prev)),
                   ExtReceipt(evs[i], prev).receipt_hash)

\* build_receipts(events)
build_receipts(evs) == BuildLoop(evs, 1, <<>>, Genesis)

\* recorder_ext.write_jsonl(path, rows): json.dumps writes the keys of a
\* receipt in the order build_receipts inserted them
ext_write_jsonl(rows) ==
    FileOf([i \in 1..Len(rows) |->
              JsonLine(Dumps(rows[i], <<"trace_id", "seq", "event_type",
                                        "event_hash", "prev_hash", "event_ts",
                                        "receipt_hash">>))])

\* the placeholder read_jsonl appends for a line json.loads rejects
ExtGapEvent(line_no) ==
    JObj([v |-> JStr("flight-log/1"),
          ts |-> JStr("UNKNOWN"),
          trace_id |-> JStr("UNKNOWN"),
          seq |-> JInt(line_no),
          actor |-> JStr("parser"),
          event_type |-> JStr("EVIDENCE_GAP"),
          payload_digest |-> JStr("parse_error"),
          domain_class |-> JStr("EVIDENCE"),
          declared |-> JBool(FALSE),
          details |-> JObj([raw_line_no |-> JInt(line_no)]),
          data_complete |-> JBool(FALSE)])

\* read_jsonl(path): whatever json.loads returns for a line is appended
read_jsonl(lines) ==
    [j \in 1..Len(NonBlankLineNos(lines)) |->
        IF IsJsonLine(lines[NonBlankLineNos(lines)[j]])
        THEN Loads(lines[NonBlankLineNos(lines)[j]].json)
        ELSE ExtGapEvent(NonBlankLineNos(lines)[j])]

\* the entry main adds to the behavior summary for event ev, if any
BehaviorFact(ev, et) ==
    CASE (et = JStr("NET_IO")
            /\ Upper(safe_str(get_field(ev, "direction", JStr("")))) = JStr("OUT")) ->
            <<Fact("network_out",
                   Fmt(<<JStr("HOST:"),
                         safe_str(get_field(ev, "host", JStr("unknown"))),
                         JStr(":"),
                         safe_str(get_field(ev, "port", JStr("")))>>))>>
      [] (et = JStr("FILE_IO")
            /\ Lower(safe_str(get_field(ev, "op", JStr(""))))
                    \in {JStr("write"), JStr("delete")}) ->
            <<Fact("file_write",
                   Fmt(<<JStr("PATH:"),
                         safe_str(get_field(ev, "path", JStr("unknown")))>>))>>
      [] et = JStr("PROC_EXEC") ->
            LET given == safe_str(get_field(ev, "cmd_digest", JStr("")))
                cmd == safe_str(get_field(ev, "cmd", JStr("")))
                cd == IF given # JStr("") THEN given
                      ELSE IF cmd # JStr("") THEN sha256_hex_str(cmd)
                      ELSE JStr("unknown")
            IN  <<Fact("proc_exec",
                       Fmt(<<JStr("CMD_DIGEST:"), Head16(cd), JStr("...")>>))>>
      [] et = JStr("DEP_INSTALL") ->
            LET pkg == safe_str(get_field(ev, "package", JStr("")))
                ver == safe_str(get_field(ev, "version", JStr("")))
                depn == safe_str(get_field(ev, "dep_name", JStr("")))
            IN  <<Fact("dep_install",
                       IF pkg # JStr("") /\ ver # JStr("")
                       THEN Fmt(<<pkg, JStr("@"), ver>>)
                       ELSE IF depn # JStr("") THEN depn
                       ELSE JStr("unknown_dep"))>>
      [] et = JStr("DATABASE_OP") ->
            <<Fact("database_op", JStr("DATABASE_OP"))>>
      [] et = JStr("API_CALL") ->
            <<Fact("api_call",
                   Fmt(<<JStr("ENDPOINT:"),
                         safe_str(get_field(ev, "endpoint", JStr("unknown")))>>))>>
      [] et = JStr("MEMORY_ACCESS") ->
            <<Fact("memory_access",
                   Fmt(<<JStr("SIZE:"),
                         safe_str(get_field(ev, "size", JInt(0)))>>))>>
      [] et \in {JStr("WS_CONNECT"), JStr("GATEWAY_URL_SET"), JStr("CRED_SEND")} ->
            <<Fact("network_out", Fmt(<<JStr("NET_EXT:"), et>>))>>
      [] OTHER -> <<>>

ExtBuckets == {"network_out", "file_write", "proc_exec", "dep_install",
               "database_op", "api_call", "memory_access"}

\* the state of the loop of main before its first iteration
ExtLoopStart == [risks_all |-> <<>>, hl_owners |-> <<>>, facts |-> <<>>,
                 gaps |-> 0]

\* one iteration of the loop of main: r is detect_risks(ev, ...)
ExtLoopBody(acc, fact, r, i) ==
    [risks_all |-> acc.risks_all \o r,
     hl_owners |-> acc.hl_owners \o [j \in 1..Len(r) |-> i],
     facts |-> acc.facts \o fact,
     gaps |-> acc.gaps
              + (IF \E j \in 1..Len(r) : r[j].tag = "EVIDENCE_GAP"
                 THEN 1 ELSE 0)]

RECURSIVE ExtLoop(_, _, _, _, _, _)
\* the loop of main over the normalized events, from the i-th on
ExtLoop(evs, i, acc, declared_intents, sensitive_paths, memory_threshold) ==
    IF i > Len(evs) THEN acc
    ELSE ExtLoop(evs, i + 1,
                 ExtLoopBody(acc,
                     BehaviorFact(evs[i],
                         safe_str(Get(evs[i], "event_type", JStr("")))),
                     detect_risks(evs[i], declared_intents, sensitive_paths,
                                  memory_threshold),
                     i),
                 declared_intents, sensitive_paths, memory_threshold)

\* status of main
ExtStatus(risk_count, gaps) ==
    LET status == IF risk_count > 0 THEN "ATTENTION" ELSE "OBSERVED"
    IN  IF gaps > 0 THEN status \o "_WITH_GAPS" ELSE status

\* the badge main builds from what its loop left (end); a behavior set is
\* written as its sorted list, which the set stands for
ExtBadge(end, total_events, do_policy_sim, policy_rules) ==
    LET core == [status |-> ExtStatus(Len(end.risks_all), end.gaps),
                 behavior_summary |->
                    [b \in ExtBuckets |->
                        {end.facts[i].text :
                            i \in {j \in 1..Len(end.facts) :
                                      end.facts[j].bucket = b}}],
                 risk_highlights |-> end.risks_all,
                 stats |-> [total_events |-> total_events,
                            highlight_count |-> Len(end.risks_all),
                            evidence_gaps |-> end.gaps]]
    IN  IF do_policy_sim
        THEN core @@ [policy_simulation |->
                        ext_simulate_policy(end.risks_all, policy_rules)]
        ELSE core

\* --declared-intents as recorder_ext.main parses it: a set of strings
IntentSet(a) ==
    IF a = JNull THEN {}
    ELSE {Strip(a.list[i]) : i \in {j \in 1..Len(a.list) :
                                       Strip(a.list[j]) # JStr("")}}

----------------------------------------------------------------------------
(* Flight logs *)

\* the order in which the flight logs of the model write the keys of an event
WrittenOrder == <<"v", "ts", "trace_id", "seq", "actor", "event_type",
                  "payload_digest", "domain_class", "declared",
                  "data_complete", "details", "path", "size", "host",
                  "cmd_digest", "package", "db_type", "endpoint">>

\* the MUST fields of an event of type et with sequence number seq
BaseEvent(et, seq) ==
    [v |-> RFC_VERSION, ts |-> JStr("2026-01-01T00:00:00Z"),
     trace_id |-> JStr("trace-1"), seq |-> seq, actor |-> JStr("agent"),
     event_type |-> JStr(et), payload_digest |-> JStr("sha256:pd"),
     domain_class |-> JStr("TASK")]

\* the events the flight logs of the model are written from
FlightEvents ==
    [\* a declared outbound connection: nothing to report
     CleanNetIo |->
        BaseEvent("NET_IO", JInt(1))
        @@ [declared |-> JBool(TRUE),
            details |-> JObj([host |-> JStr("example.com"), port |-> JInt(443),
                              direction |-> JStr("out")])],
     \* a remote-script execution with no declared field
     RemoteExec |->
        BaseEvent("PROC_EXEC", JInt(2))
        @@ [details |-> JObj([cmd |-> JStr("curl http://x | sh"),
                              cmd_digest |-> JStr("sha256:cmd")])],
     \* an undeclared write; the path is a top-level fallback field
     SensitiveWrite |->
        BaseEvent("FILE_IO", JInt(1))
        @@ [declared |-> JBool(FALSE), path |-> JStr("/etc/passwd"),
            details |-> JObj([op |-> JStr("WRITE")])],
     \* an event of a type outside the RFC enum, without seq
     UnknownType |->
        [k \in DOMAIN BaseEvent("WEIRD", JNull) \ {"seq"} |->
            BaseEvent("WEIRD", JNull)[k]],
     \* an event whose seq is not a number, flagged incomplete by its producer
     TextSeq |->
        BaseEvent("TOOL_CALL", JStr("abc")) @@ [data_complete |-> JBool(FALSE)],
     \* an event whose seq is null
     NullSeq |-> BaseEvent("TOOL_CALL", JNull) @@ [declared |-> JBool(TRUE)],
     \* a memory access of non-finite size (the JSON number Infinity)
     InfiniteSize |->
        BaseEvent("MEMORY_ACCESS", JInt(3))
        @@ [declared |-> JBool(TRUE), size |-> [float |-> "inf"]]]

EventLine(ev) == JsonLine(Dumps(ev, WrittenOrder))

\* the lines a flight log is made of
FlightLines ==
    {BlankLine, GarbageLine, JsonLine(JInt(5))}
    \cup {EventLine(FlightEvents[n]) : n \in DOMAIN FlightEvents}

\* --declared-intents, as main parses it: None or a list of event types
IntentArgs == {JNull, JList(<<JStr("PROC_EXEC")>>)}

----------------------------------------------------------------------------
(* Receipts files supplied from outside (verify mode, --verify-receipts) *)

RowShapes == {"honest", "upper_event_hash", "upper_prev_hash", "unlinked",
              "wrong_receipt_hash", "short_event_hash", "nonstr_receipt_hash",
              "nonhex_prev_hash", "missing_key", "dup_receipt_hash"}

\* lines that are valid JSON but not an object
NonObjectTexts == {JInt(5), JNull, JList(<<>>),
                   JList([i \in 1..Len(ReceiptKeys) |-> JStr(ReceiptKeys[i])]),
                   JStr(KeysText), JStr("x")}

\* the rows of a file: its JSON lines, parsed
RowsOf(lines) ==
    LET js == SelectSeq(lines, IsJsonLine)
    IN  [i \in 1..Len(js) |-> Loads(js[i].json)]

\* the receipt_hash a supplier chains the next row to
LinkOf(lines) ==
    LET rows == RowsOf(lines)
        n == Len(rows)
    IN  IF n > 0 /\ IsDict(rows[n]) /\ "receipt_hash" \in DOMAIN rows[n].obj
        THEN rows[n].obj["receipt_hash"]
        ELSE Genesis

\* the text of the i-th row, written by a supplier that chains it to `link`
ExternalRow(shape, i, link) ==
    LET eh == CASE shape = "upper_event_hash" -> Rep("A", HexLen)
                [] shape = "short_event_hash" -> Rep("e", HexLen - 1)
                [] OTHER -> Rep("e", HexLen)
        ph == CASE shape = "upper_prev_hash" -> Rep("A", HexLen)
                [] shape = "unlinked" -> Rep("b", HexLen)
                [] shape = "nonhex_prev_hash" -> Rep("g", HexLen)
                [] OTHER -> link
        r == MakeReceipt(JStr("t"), JInt(i), JStr("NET_IO"), eh, ph)
        rh == CASE shape = "wrong_receipt_hash" -> Rep("c", HexLen)
                [] shape = "nonstr_receipt_hash" -> JInt(5)
                [] OTHER -> r.receipt_hash
        d == [r EXCEPT !.receipt_hash = rh]
        text == Dumps(d, ReceiptKeys)
    IN  CASE shape = "missing_key" ->
                Dumps([k \in DOMAIN d \ {"prev_hash"} |-> d[k]], ReceiptKeys)
          [] shape = "dup_receipt_hash" ->
                [pairs |-> <<[k |-> "receipt_hash", v |-> Rep("c", HexLen)]>>
                           \o text.pairs]
          [] OTHER -> text

\* values a receipt_hash can be replaced by
TamperValues == {Rep("c", HexLen), Rep("0", HexLen - 1), JInt(5),
                 sha256_hex_str(JStr("x"))}

\* the text of a row with its receipt_hash replaced by v
WithReceiptHash(text, v) ==
    [pairs |-> [i \in 1..Len(text.pairs) |->
                  IF text.pairs[i].k = "receipt_hash"
                  THEN [k |-> "receipt_hash", v |-> v]
                  ELSE text.pairs[i]]]

----------------------------------------------------------------------------
(* Idle values of the variables a specification does not use *)

RecIdle ==
    /\ prog = "recorder" /\ input = <<>> /\ args = Absent /\ now = 0
    /\ pc = "idle"
    /\ events = <<>> /\ badge = Absent /\ receipts = <<>> /\ owners = <<>>
    /\ run = 0 /\ first_receipts = <<>>

VerIdle ==
    /\ rfile = MissingFile /\ bfile = MissingFile /\ out_dir = EmptyDir
    /\ verdict = Absent /\ prior = Absent /\ tampered = 0

DeclIdle ==
    /\ d_event = EmptyDict /\ d_intents = JNull /\ d_rec = Absent
    /\ d_ext = Absent

PolIdle ==
    /\ p_highlights = <<>> /\ p_rules = EmptyDict /\ p_out = Absent
    /\ p_prev = Absent

----------------------------------------------------------------------------
(* SpecVerify: the verifier on externally supplied files *)

InitVerify ==
    /\ RecIdle /\ DeclIdle /\ PolIdle
    /\ rfile \in {MissingFile, FileOf(<<>>)} /\ bfile = MissingFile
    /\ out_dir = EmptyDir
    /\ verdict = Absent /\ prior = Absent /\ tampered = 0

\* a supplier appends a line to the file
SupplyLine(l) ==
    /\ rfile # MissingFile
    /\ Len(rfile.lines) < MaxRows
    /\ tampered = 0
    /\ rfile' = FileOf(Append(rfile.lines, l))
    /\ verdict' = Absent /\ prior' = Absent
    /\ UNCHANGED <<bfile, out_dir, tampered, recVars, declVars, polVars>>

SupplyRow ==
    \E shape \in RowShapes :
        SupplyLine(JsonLine(ExternalRow(shape, Len(RowsOf(rfile.lines)) + 1,
                                        LinkOf(rfile.lines))))

\* a line that holds no receipt: blank, not JSON, or JSON but not an object
SupplyOther ==
    \E l \in {BlankLine, GarbageLine} \cup {JsonLine(t) : t \in NonObjectTexts} :
        SupplyLine(l)

\* the receipt_hash of one row of an accepted file is replaced
TamperReceiptHash ==
    /\ rfile # MissingFile
    /\ verdict = Returned(TRUE, "OK", "", JNull)
    /\ tampered = 0
    /\ \E k \in 1..Len(rfile.lines), v \in TamperValues :
        /\ IsJsonLine(rfile.lines[k])
        /\ Kind(rfile.lines[k].json) = "pairs"
        /\ IsDict(Loads(rfile.lines[k].json))
        /\ "receipt_hash" \in DOMAIN Loads(rfile.lines[k].json).obj
        /\ v # Loads(rfile.lines[k].json).obj["receipt_hash"]
        /\ rfile' = FileOf([rfile.lines EXCEPT
                              ![k] = JsonLine(WithReceiptHash(@.json, v))])
        /\ tampered' = k
    /\ prior' = verdict
    /\ verdict' = Absent
    /\ UNCHANGED <<bfile, out_dir, recVars, declVars, polVars>>

\* main, verify mode: ok, msg = verify_receipts_file(args.verify_receipts)
VerifyReceipts ==
    /\ verdict = Absent
    /\ verdict' = verify_receipts_file(rfile)
    /\ UNCHANGED <<rfile, bfile, out_dir, prior, tampered, recVars, declVars,
                   polVars>>

NextVerify ==
    \/ SupplyRow
    \/ SupplyOther
    \/ TamperReceiptHash
    \/ VerifyReceipts

SpecVerify == InitVerify /\ [][NextVerify]_vars

----------------------------------------------------------------------------
(* Spec: runs of recorder.py main, or of recorder_ext.py main, over one    *)
(* flight log; verify mode on the receipts recorder.py wrote; a second run *)
(* of the same command line at a later time                                *)

Init ==
    /\ VerIdle /\ DeclIdle /\ PolIdle
    /\ prog \in {"recorder", "recorder_ext"}
    /\ \E m \in 0..MaxLines : input \in [1..m -> FlightLines]
    /\ args \in [declared_intents : IntentArgs, policy_sim : BOOLEAN,
                 profile : {""}, policy_cfg : {DefaultPolicyConfig}]
    /\ now = 0 /\ pc = "start" /\ events = <<>> /\ badge = Absent
    /\ receipts = <<>> /\ owners = <<>> /\ run = 1 /\ first_receipts = <<>>

\* recorder.py: events = read_jsonl_events(args.input)
ReadJsonlEvents ==
    /\ prog = "recorder" /\ pc = "start"
    /\ events' = read_jsonl_events(input, now)
    /\ pc' = "read"
    /\ UNCHANGED <<prog, input, args, now, badge, receipts, owners, run,
                   first_receipts, verVars, declVars, polVars>>

\* recorder.py: badge, receipts = analyze_events(...); an exception ends
\* the run
AnalyzeEvents ==
    /\ prog = "recorder" /\ pc = "read"
    /\ LET res == analyze_events(events, args.declared_intents, args.policy_cfg,
                                 args.profile, args.policy_sim)
       IN  IF res.raises
           THEN /\ pc' = "crashed"
                /\ UNCHANGED <<events, badge, receipts, owners>>
           ELSE /\ pc' = "analyzed"
                /\ events' = res.events
                /\ badge' = res.badge
                /\ receipts' = res.receipts
                /\ owners' = res.owners
    /\ UNCHANGED <<prog, input, args, now, run, first_receipts, verVars,
                   declVars, polVars>>

\* recorder.py: write_json(os.path.join(args.out, "badge.json"), badge)
WriteBadge ==
    /\ prog = "recorder" /\ pc = "analyzed"
    /\ bfile' = write_json(badge)
    /\ pc' = "badge_written"
    /\ UNCHANGED <<prog, input, args, now, events, badge, receipts, owners,
                   run, first_receipts, rfile, out_dir, verdict, prior,
                   tampered, declVars, polVars>>

\* recorder.py: write_jsonl(os.path.join(args.out, "receipts.jsonl"), receipts)
WriteReceipts ==
    /\ prog = "recorder" /\ pc = "badge_written"
    /\ rfile' = write_jsonl(receipts, ReceiptKeys)
    /\ pc' = "written"
    /\ UNCHANGED <<prog, input, args, now, events, badge, receipts, owners,
                   run, first_receipts, bfile, out_dir, verdict, prior,
                   tampered, declVars, polVars>>

\* recorder.py: the write that is due fails (open or write raises OSError)
\* or the process is killed during it; the file is not created, or is left
\* with the part already written
WriteFails ==
    /\ prog = "recorder" /\ pc \in {"analyzed", "badge_written"}
    /\ IF pc = "analyzed"
       THEN /\ bfile' \in {MissingFile, TruncatedJson}
            /\ UNCHANGED rfile
       ELSE /\ \E k \in 0..Len(receipts) :
                 rfile' \in {MissingFile,
                             write_jsonl(SubSeq(receipts, 1, k), ReceiptKeys)}
            /\ rfile' # write_jsonl(receipts, ReceiptKeys)
            /\ UNCHANGED bfile
    /\ pc' = "failed"
    /\ UNCHANGED <<prog, input, args, now, events, badge, receipts, owners,
                   run, first_receipts, out_dir, verdict, prior, tampered,
                   declVars, polVars>>

\* recorder.py: a later invocation in verify mode, on the file this run wrote
VerifyWritten ==
    /\ prog = "recorder" /\ pc = "written"
    /\ verdict' = verify_receipts_file(rfile)
    /\ pc' = "verified"
    /\ UNCHANGED <<prog, input, args, now, events, badge, receipts, owners,
                   run, first_receipts, rfile, bfile, out_dir, prior,
                   tampered, declVars, polVars>>

\* recorder_ext.py: raw = read_jsonl(args.input)
ExtReadJsonl ==
    /\ prog = "recorder_ext" /\ pc = "start"
    /\ events' = read_jsonl(input)
    /\ pc' = "read"
    /\ UNCHANGED <<prog, input, args, now, badge, receipts, owners, run,
                   first_receipts, verVars, declVars, polVars>>

\* recorder_ext.py: events = [normalize_event(ev, i) for i, ev in
\* enumerate(raw, start=1)]; an exception ends the run
ExtNormalize ==
    /\ prog = "recorder_ext" /\ pc = "read"
    /\ IF \E i \in 1..Len(events) : NormalizeRaises(events[i], i)
       THEN pc' = "crashed" /\ UNCHANGED events
       ELSE /\ pc' = "normalized"
            /\ events' = [i \in 1..Len(events) |-> normalize_event(events[i], i)]
    /\ UNCHANGED <<prog, input, args, now, badge, receipts, owners, run,
                   first_receipts, verVars, declVars, polVars>>

\* recorder_ext.py: the loop of main over the events, the badge, and
\* receipts = build_receipts(events)
ExtAnalyze ==
    /\ prog = "recorder_ext" /\ pc = "normalized"
    /\ \E end \in {ExtLoop(events, 1, ExtLoopStart,
                           IntentSet(args.declared_intents),
                           DEFAULT_SENSITIVE_PATHS, DEFAULT_MEMORY_THRESHOLD)} :
        /\ badge' = ExtBadge(end, Len(events), args.policy_sim,
                             DEFAULT_POLICY_RULES)
        /\ owners' = end.hl_owners
    /\ receipts' = build_receipts(events)
    /\ pc' = "analyzed"
    /\ UNCHANGED <<prog, input, args, now, events, run, first_receipts,
                   verVars, declVars, polVars>>

\* recorder_ext.py: write_json(os.path.join(args.out, "badge.json"), badge)
\* and write_jsonl(os.path.join(args.out, "receipts.jsonl"), receipts)
ExtWriteReceipts ==
    /\ prog = "recorder_ext" /\ pc = "analyzed"
    /\ bfile' = write_json(badge)
    /\ rfile' = ext_write_jsonl(receipts)
    /\ pc' = "written"
    /\ UNCHANGED <<prog, input, args, now, events, badge, receipts, owners,
                   run, first_receipts, out_dir, verdict, prior, tampered,
                   declVars, polVars>>

\* the same command line is run again on the same flight log, at the same
\* or a later second, with a new output directory
RunAgain ==
    /\ \/ prog = "recorder" /\ pc = "verified"
       \/ prog = "recorder_ext" /\ pc = "written"
    /\ run = 1
    /\ run' = run + 1
    /\ \E t \in now..MaxClock : now' = t
    /\ first_receipts' = receipts
    /\ pc' = "start"
    /\ events' = <<>> /\ badge' = Absent /\ receipts' = <<>> /\ owners' = <<>>
    /\ rfile' = MissingFile /\ bfile' = MissingFile /\ verdict' = Absent
    /\ UNCHANGED <<prog, input, args, out_dir, prior, tampered, declVars,
                   polVars>>

Next ==
    \/ ReadJsonlEvents
    \/ AnalyzeEvents
    \/ WriteBadge
    \/ WriteReceipts
    \/ WriteFails
    \/ VerifyWritten
    \/ ExtReadJsonl
    \/ ExtNormalize
    \/ ExtAnalyze
    \/ ExtWriteReceipts
    \/ RunAgain

Spec == Init /\ [][Next]_vars

----------------------------------------------------------------------------
(* SpecOut: a run of either program from its launch, into an output        *)
(* directory that is absent, empty, or holds files of an earlier run       *)

\* ensure_out_dir that refuses a non-empty directory also with --overwrite
ensure_out_dir_IgnoresOverwrite(dir, b, r, overwrite) ==
    IF dir # NoDir
    THEN [exit |-> listdir(dir, b, r) # {}, dir |-> dir]
    ELSE [exit |-> FALSE, dir |-> EmptyDir]

\* ensure_out_dir(out_dir, overwrite): exit when it raises SystemExit, and
\* the directory as the call leaves it
ensure_out_dir(dir, b, r, overwrite) ==
    IF dir # NoDir
    THEN [exit |-> listdir(dir, b, r) # {} /\ ~overwrite, dir |-> dir]
    ELSE [exit |-> FALSE, dir |-> EmptyDir]         \* os.makedirs

\* recorder_ext.ensure_out(out_dir, overwrite): exit when it calls
\* sys.exit(2), and the directory as the call leaves it
ensure_out(dir, b, r, overwrite) ==
    IF dir # NoDir /\ listdir(dir, b, r) # {} /\ ~overwrite
    THEN [exit |-> TRUE, dir |-> dir]
    ELSE [exit |-> FALSE, dir |-> IF dir # NoDir THEN dir ELSE EmptyDir]

\* the badge an earlier run over an empty flight log wrote
OldBadge == analyze_events(<<>>, JNull, DefaultPolicyConfig, "", FALSE).badge

\* what the output path holds when the program is launched
OutDirStates ==
    {[dir |-> NoDir, b |-> MissingFile, r |-> MissingFile]}
    \cup [dir : {EmptyDir, [others |-> {"report.html"}]},
          b : {MissingFile, write_json(OldBadge)},
          r : {MissingFile, write_jsonl(<<>>, ReceiptKeys)}]

InitOut ==
    /\ DeclIdle /\ PolIdle
    /\ prog \in {"recorder", "recorder_ext"}
    /\ \E m \in 0..1 : input \in [1..m -> FlightLines]
    /\ args \in [declared_intents : IntentArgs, policy_sim : BOOLEAN,
                 profile : {""}, policy_cfg : {DefaultPolicyConfig},
                 overwrite : BOOLEAN]
    /\ \E o \in OutDirStates : out_dir = o.dir /\ bfile = o.b /\ rfile = o.r
    /\ verdict = Absent /\ prior = Absent /\ tampered = 0
    /\ now = 0 /\ pc = "launched" /\ events = <<>> /\ badge = Absent
    /\ receipts = <<>> /\ owners = <<>> /\ run = 1 /\ first_receipts = <<>>

\* recorder.py: ensure_out_dir(args.out, args.overwrite); SystemExit ends
\* the run
EnsureOutDir ==
    /\ prog = "recorder" /\ pc = "launched"
    /\ LET res == ensure_out_dir(out_dir, bfile, rfile, args.overwrite)
       IN  /\ pc' = IF res.exit THEN "fatal" ELSE "start"
           /\ out_dir' = res.dir
    /\ UNCHANGED <<prog, input, args, now, events, badge, receipts, owners,
                   run, first_receipts, rfile, bfile, verdict, prior, tampered,
                   declVars, polVars>>

\* recorder_ext.py: ensure_out(args.out, args.overwrite); sys.exit(2) ends
\* the run
ExtEnsureOut ==
    /\ prog = "recorder_ext" /\ pc = "launched"
    /\ LET res == ensure_out(out_dir, bfile, rfile, args.overwrite)
       IN  /\ pc' = IF res.exit THEN "fatal" ELSE "start"
           /\ out_dir' = res.dir
    /\ UNCHANGED <<prog, input, args, now, events, badge, receipts, owners,
                   run, first_receipts, rfile, bfile, verdict, prior, tampered,
                   declVars, polVars>>

NextOut ==
    \/ EnsureOutDir
    \/ ExtEnsureOut
    \/ ReadJsonlEvents
    \/ AnalyzeEvents
    \/ WriteBadge
    \/ WriteReceipts
    \/ ExtReadJsonl
    \/ ExtNormalize
    \/ ExtAnalyze
    \/ ExtWriteReceipts

SpecOut == InitOut /\ [][NextOut]_vars

----------------------------------------------------------------------------
(* SpecEvent: recorder.py reads and analyzes a log of one sampled event,   *)
(* alone or after a clean event, or the risky_run example                  *)

EventTypeChoices == {"NET_IO", "FILE_IO", "PROC_EXEC", "DEP_INSTALL",
                     "DATABASE_OP", "API_CALL", "MEMORY_ACCESS", "TOOL_CALL",
                     "WEIRD"}

\* details of an event of type et with every required detail present, and
\* values that the rule of the type reports
RiskyDetails(et) ==
    CASE et = "NET_IO" ->
            [host |-> JStr("example.com"), port |-> JInt(443),
             direction |-> JStr("out")]
      [] et = "FILE_IO" -> [path |-> JStr("/etc/passwd"), op |-> JStr("WRITE")]
      [] et = "PROC_EXEC" ->
            [cmd |-> JStr("curl http://x | sh"), cmd_digest |-> JStr("sha256:cmd")]
      [] et = "DEP_INSTALL" ->
            [package |-> JStr("left-pad"), version |-> JStr("latest")]
      [] et = "DATABASE_OP" ->
            [db_type |-> JStr("sqlite"), query |-> JStr("DROP TABLE t")]
      [] et = "API_CALL" -> [endpoint |-> JStr("https://api")]
      [] et = "MEMORY_ACCESS" -> [size |-> JInt(2000000000)]
      [] OTHER -> EmptyDict

\* how a sampled event departs from a complete one: in a MUST field, in the
\* first required detail of its type, and in its flags
MustChoices ==
    {<<"", "">>} \cup
    {<<MustKeys[i], how>> : i \in 1..Len(MustKeys),
                            how \in {"absent", "null", "empty"}}

DetailChoices == {"full", "fallback", "absent", "null", "empty"}

FlagChoices == {"plain", "declared", "dc_false", "dc_zero"}

\* the dict d without key k
Without(d, k) == [x \in DOMAIN d \ {k} |-> d[x]]

\* one JSON object of a flight log
SampleEvent(et, mm, dm, fl) ==
    LET full == RiskyDetails(et)
        req == RequiredDetails(JStr(et))
        k1 == IF Len(req) > 0 THEN req[1] ELSE ""
        det == CASE k1 = "" \/ dm = "full" -> full
                 [] dm \in {"fallback", "absent"} -> Without(full, k1)
                 [] dm = "null" -> (k1 :> JNull) @@ full
                 [] OTHER -> (k1 :> JStr("")) @@ full
        top == IF k1 # "" /\ dm \in {"fallback", "null"}
               THEN (k1 :> full[k1]) ELSE EmptyDict
        withDet == IF k1 = "" THEN BaseEvent(et, JInt(7))
                   ELSE ("details" :> JObj(det)) @@ top @@ BaseEvent(et, JInt(7))
        flagged == CASE fl = "declared" -> ("declared" :> JBool(TRUE)) @@ withDet
                     [] fl = "dc_false" ->
                            ("data_complete" :> JBool(FALSE)) @@ withDet
                     [] fl = "dc_zero" -> ("data_complete" :> JInt(0)) @@ withDet
                     [] OTHER -> withDet
    IN  CASE mm[2] = "absent" -> Without(flagged, mm[1])
          [] mm[2] = "null" -> (mm[1] :> JNull) @@ flagged
          [] mm[2] = "empty" -> (mm[1] :> JStr("")) @@ flagged
          [] OTHER -> flagged

SampleEvents ==
    {SampleEvent(et, mm, dm, fl) :
        et \in EventTypeChoices, mm \in MustChoices, dm \in DetailChoices,
        fl \in FlagChoices}

\* examples/risky_run.jsonl: one each of the seven base risks, no gap
RiskyRun ==
    LET types == <<"DEP_INSTALL", "PROC_EXEC", "FILE_IO", "NET_IO">>
    IN  [i \in 1..4 |->
            EventLine(("seq" :> JInt(i))
                      @@ SampleEvent(types[i], <<"", "">>, "full", "plain"))]

\* the flight logs of SpecEvent
EventLogs ==
    {<<EventLine(e)>> : e \in SampleEvents}
    \cup {<<EventLine(FlightEvents.CleanNetIo),
            EventLine(SampleEvent(et, mm, "full", "plain"))>> :
            et \in EventTypeChoices, mm \in MustChoices}
    \cup {RiskyRun}

InitEvent ==
    /\ VerIdle /\ DeclIdle /\ PolIdle
    /\ prog = "recorder"
    /\ input \in EventLogs
    /\ args \in [declared_intents : IntentArgs, policy_sim : BOOLEAN,
                 profile : {""}, policy_cfg : {DefaultPolicyConfig}]
    /\ now = 0 /\ pc = "start" /\ events = <<>> /\ badge = Absent
    /\ receipts = <<>> /\ owners = <<>> /\ run = 1 /\ first_receipts = <<>>

NextEvent ==
    \/ ReadJsonlEvents
    \/ AnalyzeEvents

SpecEvent == InitEvent /\ [][NextEvent]_vars

----------------------------------------------------------------------------
(* SpecRules: either program reads and analyzes a log of one event that    *)
(* exercises a type rule; recorder.py under several policy.json files      *)

\* FILE_IO events: every operation and mode, on a path under /etc/, under
\* /tmp/ and under neither, declared and undeclared
FileIoEvents ==
    {BaseEvent("FILE_IO", JInt(1))
     @@ [declared |-> JBool(d),
         details |-> JObj([path |-> JStr(path)] @@ op @@ mode)] :
        d \in BOOLEAN,
        path \in {"/etc/passwd", "/tmp/x", "/srv/data"},
        op \in {EmptyDict, [op |-> JStr("read")], [op |-> JStr("WRITE")],
                [op |-> JStr("Delete")]},
        mode \in {EmptyDict, [mode |-> JStr("w")], [mode |-> JStr("r")]}}

\* values of a credential header
HeaderValues == {JStr("Bearer abc"), JStr("REDACTED"), JStr("redacted"),
                 JStr("MASKED"), JStr("***"), JStr(""), JStr("  ")}

\* API_CALL events: no headers, headers that are not an object, a header
\* that is no credential, one credential header, two credential headers
ApiCallEvents ==
    {BaseEvent("API_CALL", JInt(1))
     @@ [declared |-> JBool(TRUE),
         details |-> JObj([endpoint |-> JStr("https://api")] @@ h)] :
        h \in {EmptyDict, [headers |-> JStr("Authorization: k1")],
               [headers |-> JObj("Content-Type" :> JStr("application/json"))],
               [headers |-> JObj(("X-API-Key" :> JStr("k1"))
                                 @@ ("api_key" :> JStr("k2")))]}
              \cup {[headers |-> JObj("Authorization" :> v)] :
                        v \in HeaderValues}}

\* MEMORY_ACCESS events: sizes of every JSON type, Infinity and NaN included
MemoryAccessEvents ==
    {BaseEvent("MEMORY_ACCESS", JInt(1))
     @@ [declared |-> JBool(TRUE), details |-> JObj([size |-> size])] :
        size \in {JInt(2000000000), JInt(5), JStr("2000000000"), JStr("big"),
                  JNull, JBool(TRUE), JList(<<>>), [float |-> "inf"],
                  [float |-> "nan"]}}

\* DEP_INSTALL events: pinned and unpinned versions, with and without a
\* dep_name that ends in @latest
DepInstallEvents ==
    {BaseEvent("DEP_INSTALL", JInt(1))
     @@ [declared |-> JBool(d),
         details |-> JObj([package |-> JStr("left-pad"),
                           version |-> JStr(version)] @@ dep)] :
        d \in BOOLEAN, version \in {"latest", "1.2.3"},
        dep \in {EmptyDict, [dep_name |-> JStr("left-pad@latest")]}}

RuleEvents ==
    FileIoEvents \cup ApiCallEvents \cup MemoryAccessEvents
    \cup DepInstallEvents
    \cup {\* details that are not an object
          BaseEvent("NET_IO", JInt(1)) @@ [details |-> JStr("n/a")],
          \* a seq that is not an integer
          FlightEvents.TextSeq}

\* the policy.json files: none, one that empties the prefix list and sets
\* the threshold to 0, one with its own prefix and threshold
PolicyFiles ==
    {JNull,
     JObj([sensitive_prefixes |-> JList(<<>>),
           memory_threshold_bytes |-> JInt(0)]),
     JObj([sensitive_prefixes |-> JList(<<JStr("/tmp/")>>),
           memory_threshold_bytes |-> JInt(3)])}

InitRules ==
    /\ VerIdle /\ DeclIdle /\ PolIdle
    /\ prog \in {"recorder", "recorder_ext"}
    /\ input \in {<<EventLine(e)>> : e \in RuleEvents}
    /\ args \in [declared_intents : {JNull}, policy_sim : {TRUE},
                 profile : {""},
                 policy_cfg : {load_policy_config(u) : u \in PolicyFiles}]
    /\ prog = "recorder_ext" => args.policy_cfg = DefaultPolicyConfig
    /\ now = 0 /\ pc = "start" /\ events = <<>> /\ badge = Absent
    /\ receipts = <<>> /\ owners = <<>> /\ run = 1 /\ first_receipts = <<>>

NextRules ==
    \/ ReadJsonlEvents
    \/ AnalyzeEvents
    \/ ExtReadJsonl
    \/ ExtNormalize
    \/ ExtAnalyze

SpecRules == InitRules /\ [][NextRules]_vars

----------------------------------------------------------------------------
(* SpecPolicy: simulate_policy on a highlight list and a rule set, and     *)
(* again after one switch of the rules was edited                          *)

\* the tags of RISK_TAGS that analyze_events emits, and one it does not
PolicyTags == {"UNPINNED_DEP", "UNDECLARED_DEP_INSTALL", "REMOTE_SCRIPT",
               "UNDECLARED_EXEC", "SENSITIVE_PATH", "UNDECLARED_FILE_MUTATION",
               "UNDECLARED_EGRESS", "SQL_RISK", "API_CREDENTIAL_EXPOSURE",
               "HIGH_MEMORY_ACCESS", "EVIDENCE_GAP", "UNKNOWN_EVENT_TYPE",
               "ALLOWLIST_MISS"}

\* a highlight tagged tag, as analyze_events appends it for event seq; an
\* event can have two highlights
PolicyHighlight(tag, seq) ==
    [tag |-> tag, seq |-> JInt(seq), evidence |-> JStr("sha256:pd")]
    @@ (CASE tag \in {"UNPINNED_DEP", "UNDECLARED_DEP_INSTALL"} ->
                [dep |-> Fmt(<<JStr("left-pad"), JStr("@"), JStr("latest")>>)]
          [] tag \in {"SENSITIVE_PATH", "UNDECLARED_FILE_MUTATION"} ->
                [path |-> JStr("/etc/passwd")]
          [] tag = "UNKNOWN_EVENT_TYPE" -> [event_type |-> JStr("WEIRD")]
          [] OTHER -> EmptyDict)

InitPolicy ==
    /\ RecIdle /\ VerIdle /\ DeclIdle
    /\ \E n \in 0..MaxHighlights :
        \E tags \in [1..n -> PolicyTags] :
            p_highlights =
                [i \in 1..n |-> PolicyHighlight(tags[i], (i + 1) \div 2)]
    /\ p_rules \in {DEFAULT_POLICY_PROFILES.advisory,
                    DEFAULT_POLICY_PROFILES.strict_advisory,
                    [r \in {} |-> TRUE]}
    /\ p_out = Absent /\ p_prev = Absent

\* policy_simulation = simulate_policy(risk_highlights, rules, profile_name)
SimulatePolicy ==
    /\ p_out = Absent
    /\ p_out' = simulate_policy(p_highlights, p_rules, "advisory")
    /\ UNCHANGED <<p_highlights, p_rules, p_prev, recVars, verVars, declVars>>

\* one switch of the rules is turned off, removed, or turned on (a rule
\* override of policy.json, or another profile), once
EditRule ==
    /\ p_out # Absent /\ p_prev = Absent
    /\ \E r \in RuleNames, how \in {"off", "drop", "on"} :
        /\ CASE how = "off" -> r \in DOMAIN p_rules /\ p_rules[r]
             [] how = "drop" -> r \in DOMAIN p_rules
             [] OTHER -> IF r \in DOMAIN p_rules THEN ~p_rules[r] ELSE TRUE
        /\ p_rules' = IF how = "drop" THEN Without(p_rules, r)
                      ELSE (r :> (how = "on")) @@ p_rules
        /\ p_prev' = [rules |-> p_rules, out |-> p_out, switch |-> r,
                      how |-> how]
    /\ p_out' = Absent
    /\ UNCHANGED <<p_highlights, recVars, verVars, declVars>>

NextPolicy ==
    \/ SimulatePolicy
    \/ EditRule

SpecPolicy == InitPolicy /\ [][NextPolicy]_vars

----------------------------------------------------------------------------
(* SpecDeclared: declared resolution of one event by both programs *)

\* events of the three kinds of event_type, with and without a top-level
\* declared field of several types, with and without details.declared
DeclaredEvents ==
    {et @@ d @@ dd :
        et \in {EmptyDict, [event_type |-> JStr("PROC_EXEC")],
                [event_type |-> JStr("NET_IO")]},
        d \in {EmptyDict} \cup
              {[declared |-> v] : v \in {JBool(TRUE), JBool(FALSE), JStr("yes"),
                                         JNull, JInt(0)}},
        dd \in {EmptyDict, [details |-> JObj([declared |-> JBool(TRUE)])]}}

\* the declared-intents argument: None or a list of names
DeclaredIntentLists ==
    {JNull, JList(<<>>), JList(<<JStr("PROC_EXEC")>>),
     JList(<<JStr(" PROC_EXEC "), JStr("NET_IO")>>)}

InitDeclared ==
    /\ RecIdle /\ VerIdle /\ PolIdle
    /\ d_event \in DeclaredEvents
    /\ d_intents \in DeclaredIntentLists
    /\ d_rec = Absent /\ d_ext = Absent

\* recorder.py: declared = event_declared(ev, declared_intents)
ResolveRecorder ==
    /\ d_rec = Absent
    /\ d_rec' = JBool(event_declared(d_event, d_intents))
    /\ UNCHANGED <<polVars, recVars, verVars, d_event, d_intents, d_ext>>

\* recorder_ext.py: declared = get_declared(event, declared_intents)
ResolveExt ==
    /\ d_ext = Absent
    /\ d_ext' = JBool(get_declared(d_event, IntentSet(d_intents)))
    /\ UNCHANGED <<polVars, recVars, verVars, d_event, d_intents, d_rec>>

NextDeclared ==
    \/ ResolveRecorder
    \/ ResolveExt

SpecDeclared == InitDeclared /\ [][NextDeclared]_vars

----------------------------------------------------------------------------
(* Claims about the verifier, under SpecVerify *)

FileRows == IF rfile = MissingFile THEN <<>> ELSE RowsOf(rfile.lines)

\* the file holds blank lines and JSON objects only
OnlyObjectRows ==
    /\ rfile # MissingFile
    /\ \A i \in 1..Len(rfile.lines) : rfile.lines[i] # GarbageLine
    /\ \A i \in 1..Len(FileRows) : IsDict(FileRows[i])

\* the row of the file that line k holds
RowAtLine(k) == Loads(rfile.lines[k].json)

Rejected == Kind(verdict) = "ret" /\ ~verdict.ret.ok
Accepted == Kind(verdict) = "ret" /\ verdict.ret.ok

\* C3: after the receipt_hash of receipt k of an accepted file is replaced
\* by a different value, verify_receipts_file returns False and its reason
\* names the seq of receipt k, which no other receipt of the file carries.
C3_TamperedHashRejectedAtItsSeq ==
    (tampered # 0 /\ verdict # Absent) =>
        /\ Rejected
        /\ verdict.ret.msg \in {"bad receipt_hash", "receipt_hash mismatch"}
        /\ verdict.ret.at = RowAtLine(tampered).obj["seq"]
        /\ \A j \in 1..Len(rfile.lines) :
              (j # tampered /\ IsJsonLine(rfile.lines[j]))
                  => RowAtLine(j).obj["seq"] # verdict.ret.at

\* a file of three receipts was accepted, its second receipt_hash replaced,
\* and the file verified again
C3_Witness ==
    /\ tampered = 2 /\ Len(rfile.lines) = 3
    /\ prior = Returned(TRUE, "OK", "", JNull)
    /\ Rejected

HasAllKeys(r) == \A j \in 1..Len(ReceiptKeys) : ReceiptKeys[j] \in DOMAIN r.obj

\* row i of rows has one of the defects the verifier looks for
Offending(rows, i) ==
    LET r == rows[i] IN
    \/ ~HasAllKeys(r)
    \/ /\ HasAllKeys(r)
       /\ \/ ~is_hex64(r.obj["event_hash"])
          \/ ~is_hex64(r.obj["prev_hash"])
          \/ ~is_hex64(r.obj["receipt_hash"])
          \/ r.obj["receipt_hash"] # sha256_hex_str(canon_json(VerifyCore(r.obj)))
          \/ /\ i > 1
             /\ HasAllKeys(rows[i - 1])
             /\ r.obj["prev_hash"] # rows[i - 1].obj["receipt_hash"]

\* the reason of verdict v points at row i: by its line number for a missing
\* key, by its seq otherwise
Identifies(v, rows, i) ==
    IF v.ret.msg = "missing key"
    THEN v.ret.at = JInt(i)
    ELSE "seq" \in DOMAIN rows[i].obj /\ v.ret.at = rows[i].obj["seq"]

\* C4: when a file of receipts with defects at several positions is
\* rejected, the reason identifies the first offending receipt in sequence
\* order, whatever the kinds of the defects.
C4_FirstOffendingReported ==
    (/\ OnlyObjectRows
     /\ Rejected
     /\ Cardinality({i \in 1..Len(FileRows) : Offending(FileRows, i)}) >= 2)
    => LET first == CHOOSE i \in 1..Len(FileRows) :
                        /\ Offending(FileRows, i)
                        /\ \A j \in 1..(i - 1) : ~Offending(FileRows, j)
       IN  Identifies(verdict, FileRows, first)

\* C5: verify_receipts_file never raises: whatever the file holds it returns
\* a (bool, reason) pair, and (False, reason) for an empty sequence.
C5_VerifyNeverRaises ==
    verdict # Absent =>
        /\ Kind(verdict) = "ret"
        /\ (Len(FileRows) = 0 => ~verdict.ret.ok)

\* C6: an accepted file has only event_hash, prev_hash and receipt_hash
\* values of exactly 64 lowercase hexadecimal characters.
C6_AcceptedHashesAreLowerHex ==
    (Accepted /\ OnlyObjectRows) =>
        \A i \in 1..Len(FileRows) :
            /\ IsLowerHex64(FileRows[i].obj["event_hash"])
            /\ IsLowerHex64(FileRows[i].obj["prev_hash"])
            /\ IsLowerHex64(FileRows[i].obj["receipt_hash"])

\* C28: every receipt sequence that verify_receipts_file accepts satisfies
\* the genesis condition: its first receipt has prev_hash equal to 64 '0'
\* characters (so a chain with its leading receipts removed is rejected).
C28_AcceptedStartsAtGenesis ==
    (Accepted /\ OnlyObjectRows) => FileRows[1].obj["prev_hash"] = Genesis

----------------------------------------------------------------------------
(* Claims about the runs, under Spec *)

\* the run has returned from the call that builds the receipts
ReceiptsBuilt == pc \in {"analyzed", "badge_written", "written", "verified"}

\* C1: the receipts returned by analyze_events, and by build_receipts, are
\* one per event, in event order (receipt i carries the hash of event i), the
\* first with prev_hash = 64 zeros, every later one with prev_hash equal to
\* the receipt_hash of the receipt before it.
C1_ReceiptChain ==
    ReceiptsBuilt =>
        /\ Len(receipts) = Len(events)
        /\ \A i \in 1..Len(receipts) :
            /\ receipts[i].event_hash = sha256_hex_str(canon_json(events[i]))
            /\ receipts[i].prev_hash =
                  IF i = 1 THEN Genesis ELSE receipts[i - 1].receipt_hash

\* analyze_events returned two receipts, the second linked to the first
C1_Witness ==
    /\ prog = "recorder" /\ pc = "analyzed" /\ Len(receipts) = 2
    /\ receipts[2].prev_hash = receipts[1].receipt_hash
    /\ receipts[1].prev_hash = Genesis

\* the rows read back from the receipts file
WrittenRows == [i \in 1..Len(rfile.lines) |-> Loads(rfile.lines[i].json).obj]

\* C2: for a non-empty event list, the receipts of analyze_events, written
\* one per line and read back, are accepted by verify_receipts_file with
\* (True, "OK"), and every receipt_hash read back is the hash of the canonical
\* encoding of its own trace_id, seq, event_type, event_hash and prev_hash.
C2_RoundTripAccepted ==
    (prog = "recorder" /\ pc = "verified" /\ Len(events) > 0) =>
        /\ verdict = Returned(TRUE, "OK", "", JNull)
        /\ Len(WrittenRows) = Len(receipts)
        /\ \A i \in 1..Len(WrittenRows) :
              WrittenRows[i]["receipt_hash"] =
                  sha256_hex_str(canon_json(
                      [k \in {"trace_id", "seq", "event_type", "event_hash",
                              "prev_hash"} |-> WrittenRows[i][k]]))

\* the receipts of a two-event log were written, read back and accepted
C2_Witness ==
    /\ prog = "recorder" /\ pc = "verified" /\ Len(events) = 2
    /\ Len(rfile.lines) = 2 /\ Accepted

\* C7: a second run of either program over the same input, at the same or a
\* later wall-clock time, yields the receipt sequence of the first run.
C7_ReceiptsDeterministic ==
    (run = 2 /\ ReceiptsBuilt) => receipts = first_receipts

\* the lines of the flight log that are not valid JSON or not a JSON object
IsBadLine(l) == l # BlankLine /\ ~(IsJsonLine(l) /\ IsDict(Loads(l.json)))

\* the number of lines up to line k that are not blank
Position(k) == Cardinality({i \in 1..k : input[i] # BlankLine})

\* the indexes of the highlights tagged EVIDENCE_GAP that the iteration over
\* event j appended
GapHighlightsOf(j) ==
    {h \in 1..Len(badge.risk_highlights) :
        owners[h] = j /\ badge.risk_highlights[h].tag = "EVIDENCE_GAP"}

\* C8: read_jsonl_events returns one event per non-blank line, in line order;
\* a line that is not valid JSON or not an object becomes one placeholder
\* with event_type EVIDENCE_GAP, declared false, data_complete false and
\* seq = its line number, the lines after it are still read, and
\* analyze_events emits one receipt and exactly one EVIDENCE_GAP highlight
\* for each placeholder.
C8_NoSilentEventLoss ==
    (prog = "recorder" /\ pc # "start") =>
        /\ Len(events) = Position(Len(input))
        /\ \A k \in 1..Len(input) :
            /\ (IsJsonLine(input[k]) /\ IsDict(Loads(input[k].json)) /\ pc = "read")
                  => events[Position(k)] = Loads(input[k].json).obj
            /\ IsBadLine(input[k]) =>
                /\ events[Position(k)]["event_type"] = JStr("EVIDENCE_GAP")
                /\ events[Position(k)]["declared"] = JBool(FALSE)
                /\ events[Position(k)]["data_complete"] = JBool(FALSE)
                /\ events[Position(k)]["seq"] = JInt(k)
                /\ ReceiptsBuilt =>
                    /\ Len(receipts) = Len(events)
                    /\ receipts[Position(k)].event_hash =
                          sha256_hex_str(canon_json(events[Position(k)]))
                    /\ receipts[Position(k)].seq = JInt(k)
                    /\ Cardinality(GapHighlightsOf(Position(k))) = 1

\* a log whose first line is unparseable and whose second is an event was
\* read and analyzed
C8_Witness ==
    /\ prog = "recorder" /\ pc = "analyzed" /\ Len(input) = 2
    /\ IsBadLine(input[1])
    /\ input[2] = EventLine(FlightEvents.CleanNetIo)
    /\ Len(receipts) = 2

\* C9: a run of recorder_ext.py never aborts: read_jsonl and normalize_event
\* produce one event per non-blank line and the run goes on to its badge and
\* receipts.
C9_ExtRunNeverAborts ==
    (prog = "recorder_ext" /\ pc # "start") =>
        /\ pc # "crashed"
        /\ Len(events) = Position(Len(input))

\* the run has built its badge
BadgeBuilt ==
    pc \in {"analyzed", "badge_written", "written", "verified"} /\ badge # Absent

\* C11: the badge status is OBSERVED exactly when risk_highlights is empty,
\* ATTENTION_WITH_GAPS exactly when there are highlights and the evidence-gap
\* count is at least 1, ATTENTION exactly when there are highlights and the
\* gap count is 0, and no other label is produced, by recorder.py and by
\* recorder_ext.py.
C11_StatusDerivation ==
    BadgeBuilt =>
        LET n == Len(badge.risk_highlights)
            g == badge.stats.evidence_gaps
        IN  /\ badge.status \in {"OBSERVED", "ATTENTION", "ATTENTION_WITH_GAPS"}
            /\ badge.status = "OBSERVED" <=> n = 0
            /\ badge.status = "ATTENTION_WITH_GAPS" <=> (n > 0 /\ g >= 1)
            /\ badge.status = "ATTENTION" <=> (n > 0 /\ g = 0)

\* recorder_ext.py built the badge of a log with an evidence gap
C11_Witness ==
    /\ BadgeBuilt /\ prog = "recorder_ext"
    /\ badge.stats.evidence_gaps >= 1
    /\ badge.status = "ATTENTION_WITH_GAPS"

\* the highlights of the badge that carry tag
TaggedHighlights(tag) ==
    {h \in 1..Len(badge.risk_highlights) : badge.risk_highlights[h].tag = tag}

\* C12: in every badge, stats.total_events is the number of events,
\* stats.highlight_count the length of risk_highlights, and
\* stats.evidence_gaps the number of events flagged as gaps, which is the
\* number of highlights tagged EVIDENCE_GAP.
C12_StatsConsistent ==
    BadgeBuilt =>
        /\ badge.stats.total_events = Len(events)
        /\ badge.stats.highlight_count = Len(badge.risk_highlights)
        /\ badge.stats.evidence_gaps =
              Cardinality({owners[h] : h \in TaggedHighlights("EVIDENCE_GAP")})
        /\ badge.stats.evidence_gaps =
              Cardinality(TaggedHighlights("EVIDENCE_GAP"))

\* recorder.py built the badge of a log of two events, both flagged as gaps,
\* one of them with a second highlight
C12_Witness ==
    /\ BadgeBuilt /\ prog = "recorder"
    /\ Len(events) = 2
    /\ badge.stats.evidence_gaps = 2
    /\ badge.stats.highlight_count = 3

\* C22: in the receipts produced by a run, the seq values are in ascending
\* (non-decreasing) order of receipt position, for every input log, also when
\* the events carry their own seq values or parse-error placeholders
\* (seq = line number) are mixed with ordinary events.
C22_SeqAscending ==
    ReceiptsBuilt =>
        \A i \in 1..(Len(receipts) - 1) :
            receipts[i].seq.int <= receipts[i + 1].seq.int

\* C20: at every point of a run of recorder.py, also when a write fails or
\* the run is interrupted in its write phase, the output directory holds
\* both badge.json and receipts.jsonl of this run, complete, or neither.
C20_OutputAllOrNothing ==
    prog = "recorder" =>
        \/ bfile = MissingFile /\ rfile = MissingFile
        \/ bfile = write_json(badge)
            /\ rfile = write_jsonl(receipts, ReceiptKeys)

----------------------------------------------------------------------------
(* Claims about the output directory, under SpecOut *)

\* the output directory exists and holds at least one entry
OutDirNotEmpty == out_dir # NoDir /\ listdir(out_dir, bfile, rfile) # {}

\* C21: when the output directory exists and is not empty and no overwrite
\* was requested, the run of either program ends with a fatal error before
\* any event is read and leaves every file of the output directory
\* unchanged; with overwrite requested, or with an empty or absent
\* directory, the run proceeds (and the directory exists).
C21_NonEmptyOutDirRefused ==
    [][/\ pc = "launched" =>
            IF OutDirNotEmpty /\ ~args.overwrite
            THEN /\ pc' = "fatal"
                 /\ events' = <<>>
                 /\ UNCHANGED <<out_dir, bfile, rfile>>
            ELSE /\ pc' = "start"
                 /\ out_dir' # NoDir
                 /\ UNCHANGED <<bfile, rfile>>
       /\ pc = "fatal" => UNCHANGED <<pc, events, out_dir, bfile, rfile>>]_vars

\* recorder.py was launched without --overwrite on a directory that holds
\* the outputs of an earlier run, and ended with the fatal error
C21_Witness ==
    /\ prog = "recorder" /\ pc = "fatal" /\ ~args.overwrite
    /\ bfile = write_json(OldBadge)
    /\ rfile = write_jsonl(<<>>, ReceiptKeys)
    /\ events = <<>>

----------------------------------------------------------------------------
(* Claims about the analysis of one event, under SpecEvent *)

\* the events as read_jsonl_events returned them, before analyze_events ran
EventsRead == read_jsonl_events(input, 0)

\* the risk_highlights of the badge appended by the iteration over event i,
\* as the indexes they have in the badge
HighlightsOf(i) == {h \in 1..Len(badge.risk_highlights) : owners[h] = i}

\* the tags of the badge's highlights, in order
BadgeTags ==
    [h \in 1..Len(badge.risk_highlights) |-> badge.risk_highlights[h].tag]

\* the highlights a default-profile simulation counts
CountedByDefault ==
    {h \in 1..Len(BadgeTags) :
        BadgeTags[h] \notin {"EVIDENCE_GAP", "UNKNOWN_EVENT_TYPE"}}

\* C13: under the built-in profile "advisory" with no rule overrides, the
\* simulation's violation_count is the number of highlights tagged neither
\* EVIDENCE_GAP nor UNKNOWN_EVENT_TYPE and would_block is true exactly when
\* that number is positive; the risky_run log, analyzed without declared
\* intents, gives 7 highlights, one of each base risk, status ATTENTION,
\* would_block true and violation_count 7.
C13_DefaultProfileCount ==
    (BadgeBuilt /\ args.policy_sim) =>
        /\ badge.policy_simulation.profile = "advisory"
        /\ badge.policy_simulation.violation_count = Cardinality(CountedByDefault)
        /\ badge.policy_simulation.would_block <=> Cardinality(CountedByDefault) > 0
        /\ (input = RiskyRun /\ args.declared_intents = JNull) =>
            /\ BadgeTags = <<"UNPINNED_DEP", "UNDECLARED_DEP_INSTALL",
                             "REMOTE_SCRIPT", "UNDECLARED_EXEC",
                             "SENSITIVE_PATH", "UNDECLARED_FILE_MUTATION",
                             "UNDECLARED_EGRESS">>
            /\ badge.status = "ATTENTION"
            /\ badge.stats.evidence_gaps = 0
            /\ badge.policy_simulation.would_block
            /\ badge.policy_simulation.violation_count = 7

\* the risky_run log was analyzed with the policy simulation on
C13_Witness ==
    /\ BadgeBuilt /\ args.policy_sim /\ input = RiskyRun
    /\ args.declared_intents = JNull
    /\ Len(badge.policy_simulation.violations) = 7

\* choices of profile, rule overrides and do_policy_sim
PolicyChoices ==
    [profile : {"", "strict_advisory", "no_such_profile"},
     rules : {[r \in {} |-> TRUE],
              [r \in {"block_sensitive_paths", "block_on_gaps"} |->
                    r = "block_on_gaps"]},
     sim : BOOLEAN]

\* C15: the status, behavior_summary, risk_highlights, stats and receipts
\* that analyze_events returns for an event list, declared intents, sensitive
\* prefixes and memory threshold are the same for every profile, rule
\* overrides and do_policy_sim, and the badge has a policy_simulation entry
\* exactly when do_policy_sim is true.
C15_PolicySimAdvisoryOnly ==
    pc = "analyzed" =>
        /\ "policy_simulation" \in DOMAIN badge <=> args.policy_sim
        /\ \A c \in PolicyChoices :
            LET r == analyze_events(EventsRead, args.declared_intents,
                                    [DefaultPolicyConfig EXCEPT
                                        !.policy_rules = c.rules],
                                    c.profile, c.sim)
            IN  /\ ~r.raises
                /\ r.badge.status = badge.status
                /\ r.badge.behavior_summary = badge.behavior_summary
                /\ r.badge.risk_highlights = badge.risk_highlights
                /\ r.badge.stats = badge.stats
                /\ r.receipts = receipts
                /\ "policy_simulation" \in DOMAIN r.badge <=> c.sim

\* a log with a gap and a blocked highlight was analyzed with the policy
\* simulation on
C15_Witness ==
    /\ pc = "analyzed" /\ args.policy_sim
    /\ badge.policy_simulation.would_block
    /\ badge.status = "ATTENTION_WITH_GAPS"

\* the event type of e is in the closed known-type set
KnownType(e) == "event_type" \in DOMAIN e /\ e["event_type"] \in KNOWN_EVENT_TYPES

\* the UNKNOWN_EVENT_TYPE highlights of event i
UnknownHighlightsOf(i) ==
    {h \in HighlightsOf(i) : BadgeTags[h] = "UNKNOWN_EVENT_TYPE"}

\* C17: analyze_events does not abort on an event whose event_type is not in
\* the known-type set, or missing; it gives the event exactly one
\* UNKNOWN_EVENT_TYPE highlight with the event's seq (the seq of its receipt)
\* and a receipt; an event of a known type gets no UNKNOWN_EVENT_TYPE.
C17_UnknownTypeSurfaced ==
    pc \notin {"start", "read"} =>
        /\ pc = "analyzed"
        /\ Len(receipts) = Len(EventsRead)
        /\ \A i \in 1..Len(EventsRead) :
            IF KnownType(EventsRead[i])
            THEN UnknownHighlightsOf(i) = {}
            ELSE /\ Cardinality(UnknownHighlightsOf(i)) = 1
                 /\ \A h \in UnknownHighlightsOf(i) :
                      /\ badge.risk_highlights[h].seq = receipts[i].seq
                      /\ ("seq" \in DOMAIN EventsRead[i]
                          /\ IsInt(EventsRead[i]["seq"]))
                         => badge.risk_highlights[h].seq = EventsRead[i]["seq"]
                 /\ receipts[i].event_hash =
                        sha256_hex_str(canon_json(events[i]))

\* a log whose second event has no event_type was analyzed
C17_Witness ==
    /\ pc = "analyzed" /\ Len(EventsRead) = 2
    /\ "event_type" \notin DOMAIN EventsRead[2]
    /\ Cardinality(UnknownHighlightsOf(2)) = 1
    /\ Len(receipts) = 2

\* v is null or the empty string
NullOrEmpty(v) == v = JNull \/ v = JStr("")

\* a MUST field of e is absent, null or empty
MustFieldMissing(e) ==
    \E k \in {"v", "ts", "trace_id", "seq", "actor", "event_type",
              "payload_digest", "domain_class"} :
        k \notin DOMAIN e \/ NullOrEmpty(e[k])

\* a detail required for the type of e is absent, null or empty, in the
\* details object or, when the details object lacks it, at top level
RequiredDetailMissing(e) ==
    LET req == RequiredDetails(Get(e, "event_type", JNull))
        det == IF "details" \in DOMAIN e /\ IsDict(e["details"])
               THEN e["details"].obj ELSE EmptyDict
    IN  \E j \in 1..Len(req) :
            IF req[j] \in DOMAIN det THEN NullOrEmpty(det[req[j]])
            ELSE req[j] \notin DOMAIN e \/ NullOrEmpty(e[req[j]])

\* e is an evidence gap
GapByFields(e) ==
    \/ MustFieldMissing(e)
    \/ RequiredDetailMissing(e)
    \/ ("data_complete" \in DOMAIN e /\ e["data_complete"] = JBool(FALSE))

\* C18: an event gets exactly one EVIDENCE_GAP highlight, and counts once in
\* evidence_gaps, if and only if a MUST field is absent, null or empty, or a
\* detail required for its type is absent, null or empty after top-level
\* fallback, or data_complete is false.
C18_EvidenceGapIff ==
    pc = "analyzed" =>
        /\ \A i \in 1..Len(EventsRead) :
              Cardinality(GapHighlightsOf(i)) =
                  IF GapByFields(EventsRead[i]) THEN 1 ELSE 0
        /\ badge.stats.evidence_gaps =
              Cardinality({i \in 1..Len(EventsRead) : GapByFields(EventsRead[i])})

\* an event was analyzed whose only defect is a required detail that is null
\* in its details object
C18_Witness ==
    /\ pc = "analyzed" /\ Len(EventsRead) = 1
    /\ ~MustFieldMissing(EventsRead[1])
    /\ "data_complete" \notin DOMAIN EventsRead[1]
    /\ RequiredDetailMissing(EventsRead[1])
    /\ EventsRead[1]["event_type"] = JStr("NET_IO")
    /\ Get(EventsRead[1]["details"].obj, "host", JStr("")) = JNull
    /\ "host" \in DOMAIN EventsRead[1]
    /\ badge.stats.evidence_gaps = 1

\* the place of a tag in the stated order: type rule, unknown type, gap
Rank(tag) ==
    CASE tag = "EVIDENCE_GAP" -> 3
      [] tag = "UNKNOWN_EVENT_TYPE" -> 2
      [] OTHER -> 1

\* C19: among the highlights of one event, the tags of the event-type rule
\* come first, then UNKNOWN_EVENT_TYPE, then EVIDENCE_GAP.
C19_TypeRuleTagsFirst ==
    pc = "analyzed" =>
        \A a, b \in 1..Len(BadgeTags) :
            (a < b /\ owners[a] = owners[b])
                => Rank(BadgeTags[a]) <= Rank(BadgeTags[b])

\* C27: analyze_events treats its input events as immutable: after the call
\* every event, its details map included, equals its value before the call,
\* also for events with top-level fallback fields next to a details object;
\* hence each receipt's event_hash is the hash of the event as it was read.
C27_EventsImmutable ==
    pc = "analyzed" =>
        /\ events = EventsRead
        /\ \A i \in 1..Len(receipts) :
              receipts[i].event_hash =
                  sha256_hex_str(canon_json(EventsRead[i]))

----------------------------------------------------------------------------
(* Claims about the type rules, under SpecRules *)

\* recorder.py has analyzed the log
Analyzed == prog = "recorder" /\ pc = "analyzed"

\* the events of the log that have type et, by index
EventsOfType(et) ==
    {i \in 1..Len(EventsRead) :
        Get(EventsRead[i], "event_type", JNull) = JStr(et)}

\* detail k of event e: from its details object, else from its top level,
\* else the empty string
DetailOf(e, k) ==
    IF "details" \in DOMAIN e /\ IsDict(e["details"])
       /\ k \in DOMAIN e["details"].obj
    THEN e["details"].obj[k]
    ELSE Get(e, k, JStr(""))

\* event i has a highlight tagged tag
HasTag(i, tag) == \E h \in HighlightsOf(i) : BadgeTags[h] = tag

\* the path of e starts with one of the prefixes
PathUnder(e, prefixes) ==
    \E j \in 1..Len(prefixes) : StartsWith(PyStr(DetailOf(e, "path")), prefixes[j])

\* the sensitive-prefix list of the policy configuration
ConfiguredPrefixes == args.policy_cfg.sensitive_prefixes

\* C23: a FILE_IO event whose path starts with a configured sensitive prefix
\* gets a SENSITIVE_PATH highlight whatever its operation is (read as well
\* as write or delete), and one whose path starts with no configured prefix
\* never gets one (checked for the configurations with a non-empty list).
C23_SensitivePathAnyOperation ==
    (Analyzed /\ Len(ConfiguredPrefixes) > 0) =>
        \A i \in EventsOfType("FILE_IO") :
            HasTag(i, "SENSITIVE_PATH")
                <=> PathUnder(EventsRead[i], ConfiguredPrefixes)

\* e carries declared = true
DeclaredTrue(e) == Get(e, "declared", JBool(FALSE)) = JBool(TRUE)

\* the operation of e is write or delete, or its mode is w, a or x
IsMutation(e) ==
    \/ Lower(PyStr(DetailOf(e, "op"))) \in {JStr("write"), JStr("delete")}
    \/ Lower(PyStr(DetailOf(e, "mode"))) \in {JStr("w"), JStr("a"), JStr("x")}

\* C24: an undeclared FILE_IO event gets an UNDECLARED_FILE_MUTATION
\* highlight exactly when its operation is write or delete or its mode is
\* w, a or x; a declared FILE_IO event never gets one.
C24_UndeclaredFileMutation ==
    Analyzed =>
        \A i \in EventsOfType("FILE_IO") :
            HasTag(i, "UNDECLARED_FILE_MUTATION")
                <=> (~DeclaredTrue(EventsRead[i]) /\ IsMutation(EventsRead[i]))

\* header k of the headers object hs exposes a credential: its key is a
\* credential key and its value is non-empty and no redaction marker
Exposes(hs, k) ==
    /\ Lower(JStr(k)) \in {JStr("api_key"), JStr("x-api-key"),
                            JStr("authorization")}
    /\ Strip(PyStr(hs[k])) # JStr("")
    /\ Upper(Strip(PyStr(hs[k])))
          \notin {JStr("REDACTED"), JStr("MASKED"), JStr("***")}

\* some header of e exposes a credential
CredentialExposed(e) ==
    /\ IsDict(DetailOf(e, "headers"))
    /\ \E k \in DOMAIN DetailOf(e, "headers").obj :
          Exposes(DetailOf(e, "headers").obj, k)

\* C25: an API_CALL event gets an API_CREDENTIAL_EXPOSURE highlight exactly
\* when some header whose key is api_key, x-api-key or authorization
\* (case-insensitive) has a non-empty value that is not one of the markers
\* REDACTED, MASKED or ***, and at most one such highlight per event.
C25_ApiCredentialExposure ==
    Analyzed =>
        \A i \in EventsOfType("API_CALL") :
            Cardinality({h \in HighlightsOf(i) :
                            BadgeTags[h] = "API_CREDENTIAL_EXPOSURE"})
                = IF CredentialExposed(EventsRead[i]) THEN 1 ELSE 0

\* C26: analyze_events is total: whatever the types and values of the
\* fields of the events (a MEMORY_ACCESS size that is non-numeric, null,
\* Infinity or NaN; details or headers that are not objects; a non-integer
\* seq) it returns a badge and one receipt per event without raising, and a
\* non-numeric size is treated as 0 (no HIGH_MEMORY_ACCESS).
C26_AnalyzeEventsTotal ==
    (prog = "recorder" /\ pc \notin {"start", "read"}) =>
        /\ pc = "analyzed"
        /\ badge # Absent
        /\ Len(receipts) = Len(EventsRead)
        /\ \A i \in EventsOfType("MEMORY_ACCESS") :
              DetailOf(EventsRead[i], "size")
                    \in {JStr("big"), JNull, JList(<<>>)}
                  => ~HasTag(i, "HIGH_MEMORY_ACCESS")

\* C29: analyze_events applies exactly the sensitive-prefix list and the
\* memory threshold of the policy configuration it is given: SENSITIVE_PATH
\* only for a path under a configured prefix, so never with a configured
\* empty list, and HIGH_MEMORY_ACCESS for an integer size exactly when it
\* exceeds the configured threshold, so for every size > 0 with threshold 0.
C29_ConfiguredValuesApplied ==
    Analyzed =>
        /\ \A i \in EventsOfType("FILE_IO") :
              HasTag(i, "SENSITIVE_PATH")
                  => PathUnder(EventsRead[i], ConfiguredPrefixes)
        /\ \A i \in EventsOfType("MEMORY_ACCESS") :
              Kind(DetailOf(EventsRead[i], "size")) = "int"
                  => (HasTag(i, "HIGH_MEMORY_ACCESS")
                        <=> DetailOf(EventsRead[i], "size").int
                                > args.policy_cfg.memory_threshold_bytes)

\* C30: no event produces two highlights with the same tag, in
\* recorder.analyze_events and in recorder_ext.detect_risks.
C30_DistinctTagsPerEvent ==
    pc = "analyzed" =>
        \A a, b \in 1..Len(BadgeTags) :
            (a # b /\ owners[a] = owners[b]) => BadgeTags[a] # BadgeTags[b]

----------------------------------------------------------------------------
(* Claims about simulate_policy, under SpecPolicy *)

\* the switch a tag is governed by, "" for a tag that no switch governs
GoverningSwitch(tag) ==
    CASE tag = "REMOTE_SCRIPT" -> "block_remote_script"
      [] tag = "SENSITIVE_PATH" -> "block_sensitive_paths"
      [] tag = "UNDECLARED_EXEC" -> "block_undeclared_actions"
      [] tag = "UNDECLARED_FILE_MUTATION" -> "block_undeclared_actions"
      [] tag = "UNDECLARED_EGRESS" -> "block_undeclared_actions"
      [] tag = "UNPINNED_DEP" -> "block_unpinned_deps"
      [] tag = "UNDECLARED_DEP_INSTALL" -> "block_unpinned_deps"
      [] tag = "EVIDENCE_GAP" -> "block_on_gaps"
      [] tag = "UNKNOWN_EVENT_TYPE" -> "block_on_unknown"
      [] tag = "SQL_RISK" -> "block_sql_risks"
      [] tag = "API_CREDENTIAL_EXPOSURE" -> "block_api_exposure"
      [] tag = "HIGH_MEMORY_ACCESS" -> "block_high_memory"
      [] OTHER -> ""

\* the seq and the words after it in violation string v
ViolationKey(v) == <<v.fmt[2], v.fmt[3]>>

\* the seq and the words of the violation string of highlight h
HighlightKey(h) == <<PyStr(h.seq), JStr(ViolationWords(h.tag))>>

\* the positions of the highlights governed by switch r
GovernedBy(r) ==
    {h \in 1..Len(p_highlights) : GoverningSwitch(p_highlights[h].tag) = r}

\* C14: after exactly one switch is turned from true to false, the
\* violations are the earlier ones without the entries of the highlights
\* whose tag maps to that switch, the others in the same order, and
\* violation_count is lower by the number removed.
C14_OneSwitchOff ==
    (p_prev # Absent /\ p_out # Absent /\ p_prev.how = "off") =>
        LET gone == {HighlightKey(p_highlights[h]) :
                        h \in GovernedBy(p_prev.switch)}
        IN  /\ p_out.violations =
                  SelectSeq(p_prev.out.violations,
                            LAMBDA v : ViolationKey(v) \notin gone)
            /\ p_out.violation_count =
                  p_prev.out.violation_count
                  - Cardinality(GovernedBy(p_prev.switch))

\* block_sensitive_paths was turned off for a list of a SENSITIVE_PATH and
\* an UNDECLARED_EXEC highlight that were both violations
C14_Witness ==
    /\ p_prev # Absent /\ p_out # Absent
    /\ p_prev.how = "off" /\ p_prev.switch = "block_sensitive_paths"
    /\ Len(p_highlights) = 2
    /\ p_highlights[1].tag = "SENSITIVE_PATH"
    /\ p_highlights[2].tag = "UNDECLARED_EXEC"
    /\ p_prev.out.violation_count = 2
    /\ p_out.violation_count = 1

\* the switch of highlight h is true in the rules
Enabled(h) ==
    LET sw == GoverningSwitch(p_highlights[h].tag)
    IN  sw # "" /\ sw \in DOMAIN p_rules /\ p_rules[sw]

\* C16: each highlight yields exactly one violation when the switch its tag
\* maps to is true in the rules and none otherwise, a switch absent from the
\* rules counting as disabled; violations follow highlight order,
\* violation_count is their number and would_block is true exactly when it
\* is positive.
C16_OneViolationPerEnabledHighlight ==
    p_out # Absent =>
        LET hits == SelectSeq([h \in 1..Len(p_highlights) |-> h], Enabled)
        IN  /\ Len(p_out.violations) = Len(hits)
            /\ \A j \in 1..Len(hits) :
                  ViolationKey(p_out.violations[j])
                      = HighlightKey(p_highlights[hits[j]])
            /\ p_out.violation_count = Len(p_out.violations)
            /\ p_out.would_block <=> p_out.violation_count > 0

\* a REMOTE_SCRIPT and an UNDECLARED_EGRESS highlight were simulated under
\* rules that lack block_remote_script
C16_Witness ==
    /\ p_out # Absent
    /\ "block_remote_script" \notin DOMAIN p_rules
    /\ Len(p_highlights) = 2
    /\ p_highlights[1].tag = "REMOTE_SCRIPT"
    /\ p_highlights[2].tag = "UNDECLARED_EGRESS"
    /\ p_out.violation_count = 1

----------------------------------------------------------------------------
(* Claims about declared resolution, under SpecDeclared *)

\* the result the precedence gives: an explicit boolean declared field, else
\* membership of the event type in the declared-intents set, else false
DeclaredByPrecedence ==
    IF "declared" \in DOMAIN d_event /\ IsBool(d_event["declared"])
    THEN d_event["declared"].bool
    ELSE IF "event_type" \in DOMAIN d_event
    THEN d_event["event_type"] \in IntentSet(d_intents)
    ELSE FALSE

\* C10: event_declared and get_declared both return the value of an explicit
\* boolean declared field when the event has one, otherwise whether the event
\* type is in the declared-intents set, otherwise false.
C10_DeclaredPrecedence ==
    /\ d_rec # Absent => d_rec = JBool(DeclaredByPrecedence)
    /\ d_ext # Absent => d_ext = JBool(DeclaredByPrecedence)

====
